---- MODULE Spec2Model ----
(***************************************************************************)
(* prompthistory: the search engine (src/core/search.ts), the validator     *)
(* and the source adapters, and the choice and merge of the sources        *)
(* (src/core/parser.ts).                                                   *)
(*                                                                         *)
(* Strings are sequences of one-character strings, so that trim,           *)
(* toLowerCase, startsWith and includes are computed, not assumed.         *)
(* An optional JavaScript value is a sequence of length 0 (undefined) or   *)
(* 1 (the value): Absent = << >>, Some(v) = << v >>.                       *)
(***************************************************************************)
EXTENDS Integers, Sequences, FiniteSets, TLC

VARIABLES
    entries,    \* HistorySearchEngine.entries: the collection given to the constructor
    fuse,       \* the Fuse index: for each position of entries, its score for the query, or NoMatch
    calls,      \* the number of search() calls made on the engine
    opts,       \* the options of the latest search() call
    stage,      \* the entries held by `results`/`filtered` after each stage of the latest call
    results,    \* what the latest search() call returned
    entries0,   \* history: the collection as it was constructed
    memo,       \* history: the options and the output of the first search() call
    disk,       \* the sources on disk: the files by path, and the per-client directories
    out,        \* the outcome of the latest ingestion call
    run,        \* a process: its DEFAULT_HISTORY_PATH and the readers its ingestions ran
    db,         \* parseOpenCodeHistory step by step: where the call is, and its handle
    tests       \* the test cases stored, and a runAllTests call step by step

vars == <<entries, fuse, calls, opts, stage, results, entries0, memo, disk, out, run, db, tests>>

called == calls > 0

-----------------------------------------------------------------------------
(* Bounds of the model *)

MaxEntries == 3
MaxLimit == 2
MaxScore == 1
MaxCalls == 3
MaxLines == 3
MaxRecords == 2
MaxRequests == 3

-----------------------------------------------------------------------------
(* JavaScript values *)

Absent == << >>
Some(v) == << v >>
IsPresent(x) == x # << >>
Val(x) == x[1]

\* truthiness of an optional string: undefined and "" are falsy
TruthyString(x) == IsPresent(x) /\ Val(x) # << >>
\* truthiness of an optional number: undefined and 0 are falsy
TruthyNumber(x) == IsPresent(x) /\ Val(x) # 0
\* truthiness of an optional boolean
TruthyBoolean(x) == IsPresent(x) /\ Val(x)
\* truthiness of an optional Date: every object is truthy
TruthyObject(x) == IsPresent(x)

-----------------------------------------------------------------------------
(* String.prototype functions *)

IsWhiteSpace(c) == c \in {" ", "\t", "\n"}

Lower(c) ==
    CASE c = "A" -> "a"
      [] c = "B" -> "b"
      [] c = "F" -> "f"
      [] c = "O" -> "o"
      [] OTHER -> c

ToLowerCase(s) == [i \in 1..Len(s) |-> Lower(s[i])]

RECURSIVE TrimStart(_)
TrimStart(s) ==
    IF s = << >> THEN s
    ELSE IF IsWhiteSpace(Head(s)) THEN TrimStart(Tail(s)) ELSE s

RECURSIVE TrimEnd(_)
TrimEnd(s) ==
    IF s = << >> THEN s
    ELSE IF IsWhiteSpace(s[Len(s)]) THEN TrimEnd(SubSeq(s, 1, Len(s) - 1)) ELSE s

Trim(s) == TrimEnd(TrimStart(s))

StartsWith(s, p) == Len(s) >= Len(p) /\ SubSeq(s, 1, Len(p)) = p

Includes(s, sub) ==
    \E i \in 0..(Len(s) - Len(sub)) : SubSeq(s, i + 1, i + Len(sub)) = sub

\* Array.prototype.slice(0, end)
Slice0(s, end) ==
    LET e == IF end < 0 THEN (IF Len(s) + end < 0 THEN 0 ELSE Len(s) + end)
             ELSE (IF end > Len(s) THEN Len(s) ELSE end)
    IN SubSeq(s, 1, e)

-----------------------------------------------------------------------------
(* Entries, as the adapters make them *)

Entry(d, p, t, f) ==
    [display |-> d, project |-> p, timestamp |-> t, _isSlashCommand |-> f]

\* validator and relational adapter
IsSlashCommand(display) == StartsWith(TrimStart(display), <<"/">>)
\* codex, gemini and openclaw adapters
ClientIsSlashCommand(display) == StartsWith(display, <<"/">>)
\* claudecode adapter
ClaudeIsSlashCommand(display) == FALSE

AdapterFlags(d) ==
    {IsSlashCommand(d), ClientIsSlashCommand(d), ClaudeIsSlashCommand(d)}

AdapterEntries(displays, projects, timestamps) ==
    UNION {{Entry(d, p, t, f) : f \in AdapterFlags(d)} :
           <<d, p, t>> \in displays \X projects \X timestamps}

SeqsUpTo(S, n) == UNION {[1..k -> S] : k \in 0..n}

-----------------------------------------------------------------------------
(* Fuse *)

NoMatch == -1
Scores == 0..MaxScore

\* fuse.search(query): the matching positions, by ascending score, ties by position
FuseSearch(fz) ==
    LET hits == {i \in DOMAIN fz : fz[i] # NoMatch}
        Before(i, j) == fz[i] < fz[j] \/ (fz[i] = fz[j] /\ i < j)
        Rank(i) == Cardinality({j \in hits : Before(j, i)}) + 1
    IN [k \in 1..Cardinality(hits) |-> CHOOSE i \in hits : Rank(i) = k]

-----------------------------------------------------------------------------
(* HistorySearchEngine.search *)

FuseResult(es, fz, i) ==
    [ref |-> i, entry |-> es[i], score |-> Some(fz[i]),
     matches |-> Some(<<[key |-> "display", value |-> es[i].display]>>)]

PlainResult(es, i) ==
    [ref |-> i, entry |-> es[i], score |-> Absent, matches |-> Absent]

\* mutant: the query is tested with `!== undefined`, so "" is searched for
MatchStageDefinedQuery(es, fz, o) ==
    IF IsPresent(o.query)
    THEN LET hits == FuseSearch(fz)
         IN [k \in 1..Len(hits) |-> FuseResult(es, fz, hits[k])]
    ELSE [i \in 1..Len(es) |-> PlainResult(es, i)]

MatchStage(es, fz, o) ==
    IF TruthyString(o.query)
    THEN LET hits == FuseSearch(fz)
         IN [k \in 1..Len(hits) |-> FuseResult(es, fz, hits[k])]
    ELSE [i \in 1..Len(es) |-> PlainResult(es, i)]

\* mutant: options.project is compared as given, not lower-cased
ProjectFilterCaseSensitive(rs, o) ==
    IF TruthyString(o.project)
    THEN LET projectFilter == Val(o.project)
             Keep(r) == Includes(ToLowerCase(r.entry.project), projectFilter)
         IN SelectSeq(rs, Keep)
    ELSE rs

ProjectFilter(rs, o) ==
    IF TruthyString(o.project)
    THEN LET projectFilter == ToLowerCase(Val(o.project))
             Keep(r) == Includes(ToLowerCase(r.entry.project), projectFilter)
         IN SelectSeq(rs, Keep)
    ELSE rs

FromFilter(rs, o) ==
    IF TruthyObject(o.from)
    THEN LET Keep(r) == r.entry.timestamp >= Val(o.from)
         IN SelectSeq(rs, Keep)
    ELSE rs

EndOfDayOffset == 86399999

\* mutant: `<` for `<=`
ToFilterStrict(rs, o) ==
    IF TruthyObject(o.to)
    THEN LET endOfDay == Val(o.to) + EndOfDayOffset
             Keep(r) == r.entry.timestamp < endOfDay
         IN SelectSeq(rs, Keep)
    ELSE rs

\* mutant: `else if (options.to)`, so `to` is ignored when `from` is given
ToFilterElseIf(rs, o) ==
    IF TruthyObject(o.from) THEN rs
    ELSE IF TruthyObject(o.to)
    THEN LET endOfDay == Val(o.to) + EndOfDayOffset
             Keep(r) == r.entry.timestamp <= endOfDay
         IN SelectSeq(rs, Keep)
    ELSE rs

ToFilter(rs, o) ==
    IF TruthyObject(o.to)
    THEN LET endOfDay == Val(o.to) + EndOfDayOffset
             Keep(r) == r.entry.timestamp <= endOfDay
         IN SelectSeq(rs, Keep)
    ELSE rs

\* mutant: startsWith('/') without trim(), as the per-client adapters test it
SlashFilterNoTrim(rs, o) ==
    IF ~TruthyBoolean(o.includeSlashCommands)
    THEN LET Keep(r) == ~StartsWith(r.entry.display, <<"/">>)
         IN SelectSeq(rs, Keep)
    ELSE rs

SlashFilter(rs, o) ==
    IF ~TruthyBoolean(o.includeSlashCommands)
    THEN LET Keep(r) == ~StartsWith(Trim(r.entry.display), <<"/">>)
         IN SelectSeq(rs, Keep)
    ELSE rs

DedupKey(r) == ToLowerCase(Trim(r.entry.display))

RECURSIVE DedupFrom(_, _)
DedupFrom(rs, seen) ==
    IF rs = << >> THEN << >>
    ELSE LET key == DedupKey(Head(rs))
         IN IF key \in seen
            THEN DedupFrom(Tail(rs), seen)
            ELSE <<Head(rs)>> \o DedupFrom(Tail(rs), seen \cup {key})

\* mutant: deduplication through a Map from key to result: a key keeps the
\* place of its first result and the value of its last
UniqueFilterViaMap(rs, o) ==
    IF TruthyBoolean(o.unique)
    THEN LET IsFirst(i) == \A k \in 1..(i - 1) : DedupKey(rs[k]) # DedupKey(rs[i])
             firsts == SelectSeq([i \in 1..Len(rs) |-> i], IsFirst)
             LastOf(i) == CHOOSE k \in DOMAIN rs :
                            /\ DedupKey(rs[k]) = DedupKey(rs[i])
                            /\ \A m \in (k + 1)..Len(rs) : DedupKey(rs[m]) # DedupKey(rs[k])
         IN [n \in 1..Len(firsts) |-> rs[LastOf(firsts[n])]]
    ELSE rs

\* mutant: a result is dropped when an earlier entry of the collection has its
\* key, whether or not that entry passed the filters
UniqueFilterOverCollection(rs, o) ==
    IF TruthyBoolean(o.unique)
    THEN LET Keep(r) == \A k \in 1..(r.ref - 1) :
                            ToLowerCase(Trim(entries[k].display)) # DedupKey(r)
         IN SelectSeq(rs, Keep)
    ELSE rs

UniqueFilter(rs, o) ==
    IF TruthyBoolean(o.unique) THEN DedupFrom(rs, {}) ELSE rs

ApplyLimit(rs, o) ==
    IF TruthyNumber(o.limit) THEN Slice0(rs, Val(o.limit)) ELSE rs

\* the positions in this.entries of the entries a result list wraps
Refs(rs) == [k \in 1..Len(rs) |-> rs[k].ref]

\* mutant: search() reverses this.entries in place
EntriesReversed(es) == [i \in 1..Len(es) |-> es[Len(es) + 1 - i]]

\* search() only reads this.entries: map, filter and slice make new arrays
EntriesAfterSearch(es) == es

\* search(options) over a collection and its index: the candidates after each
\* stage and the results
SearchOutput(es, fz, o) ==
    LET matched == MatchStage(es, fz, o)
        byProject == ProjectFilter(matched, o)
        byFrom == FromFilter(byProject, o)
        byTo == ToFilter(byFrom, o)
        bySlash == SlashFilter(byTo, o)
        byUnique == UniqueFilter(bySlash, o)
    IN [stage |-> [matched |-> Refs(matched), project |-> Refs(byProject),
                   from |-> Refs(byFrom), to |-> Refs(byTo),
                   slash |-> Refs(bySlash), unique |-> Refs(byUnique)],
        results |-> ApplyLimit(byUnique, o)]

Search(o) ==
    LET s == SearchOutput(entries, fuse, o)
    IN /\ stage' = s.stage
       /\ results' = s.results
       /\ opts' = o
       /\ calls' = calls + 1
       /\ entries' = EntriesAfterSearch(entries)
       /\ memo' = IF called THEN memo ELSE Some([opts |-> o, results |-> results'])
       /\ UNCHANGED <<fuse, entries0, disk, out, run, db, tests>>

\* a command without a query: new HistorySearchEngine(es), then one search() call
ConstructAndSearch(es, o) ==
    LET fz == [i \in DOMAIN es |-> NoMatch]
        s == SearchOutput(es, fz, o)
    IN /\ calls = 0
       /\ entries' = EntriesAfterSearch(es) /\ fuse' = fz /\ entries0' = es
       /\ stage' = s.stage
       /\ results' = s.results
       /\ opts' = o
       /\ calls' = 1
       /\ memo' = Some([opts |-> o, results |-> s.results])

\* the search and list commands: one engine, one search() call, then the process ends
SearchCommand(o) == calls = 0 /\ Search(o)

-----------------------------------------------------------------------------
(* Numbers of the ingestion side.  Milliseconds since the epoch are beyond
   32-bit integers: an instant is its whole seconds and the milliseconds
   left over.  NaN compares false with every number. *)

Num(s, m) == [nan |-> FALSE, sec |-> s, ms |-> m]
NaN == [nan |-> TRUE, sec |-> 0, ms |-> 0]

NumLt(a, b) ==
    /\ ~a.nan /\ ~b.nan
    /\ a.sec < b.sec \/ (a.sec = b.sec /\ a.ms < b.ms)

NumGe(a, b) == ~a.nan /\ ~b.nan /\ ~NumLt(a, b)

-----------------------------------------------------------------------------
(* More of String.prototype *)

EndsWith(s, p) == Len(s) >= Len(p) /\ SubSeq(s, Len(s) - Len(p) + 1, Len(s)) = p

\* String.prototype.substring(0, end), end >= 0
Substring0(s, end) == SubSeq(s, 1, IF end > Len(s) THEN Len(s) ELSE end)

-----------------------------------------------------------------------------
(* JSON values, as JSON.parse returns them.  A field of a parsed record is
   a value with its type; a field the record does not have is undefined. *)

JUndefined == [type |-> "undefined", str |-> << >>, num |-> Num(0, 0)]
JString(s) == [type |-> "string", str |-> s, num |-> Num(0, 0)]
JNumber(n) == [type |-> "number", str |-> << >>, num |-> n]
JEmptyObject == [type |-> "object", str |-> << >>, num |-> Num(0, 0)]

\* a parsed line of the history file that is an object, by the fields the schema reads
JsonRecord(d, pc, t, p, s) ==
    [type |-> "object", display |-> d, pastedContents |-> pc, timestamp |-> t,
     project |-> p, sessionId |-> s]

\* a line of a file: its text, and what JSON.parse makes of it (Absent: it throws)
Line(text, json) == [text |-> text, json |-> json]

-----------------------------------------------------------------------------
(* The validator (core/schema) *)

MIN_TIMESTAMP == Num(1000000000, 0)
MAX_DISPLAY_LENGTH == 500

IsHexDigit(c) ==
    c \in {"0", "1", "2", "3", "4", "5", "6", "7", "8", "9",
           "a", "b", "c", "d", "e", "f", "A", "B", "C", "D", "E", "F"}

\* /^[0-9a-f]{8}-[0-9a-f]{4}-[0-9a-f]{4}-[0-9a-f]{4}-[0-9a-f]{12}$/i
UUID_REGEX(s) ==
    /\ Len(s) = 36
    /\ \A i \in 1..36 :
         IF i \in {9, 14, 19, 24} THEN s[i] = "-" ELSE IsHexDigit(s[i])

HistoryEntrySchema(v) ==
    /\ v.type = "object"
    /\ v.display.type = "string"
    /\ v.pastedContents.type = "object"
    /\ v.timestamp.type = "number" /\ NumGe(v.timestamp.num, MIN_TIMESTAMP)
    /\ v.project.type = "string"
    /\ \/ v.sessionId.type = "undefined"
       \/ v.sessionId.type = "string" /\ UUID_REGEX(v.sessionId.str)

TruncateDisplay(display) ==
    IF Len(display) <= MAX_DISPLAY_LENGTH THEN display
    ELSE Substring0(display, MAX_DISPLAY_LENGTH - 3) \o <<".", ".", ".">>

\* an entry as an adapter returns it; a per-client adapter sets `client` and
\* no _truncatedDisplay
EnrichedEntry(d, t, p, s, c, n, td, f) ==
    [display |-> d, timestamp |-> t, project |-> p, sessionId |-> s, client |-> c,
     _lineNumber |-> n, _truncatedDisplay |-> td, _isSlashCommand |-> f]

\* .catchall(z.unknown()): the fields of the record that the schema does not
\* name stay in result.data, and parseEntry spreads them into the entry
Catchall(parsed) ==
    [f \in DOMAIN parsed \ {"type", "display", "pastedContents", "timestamp", "project",
                             "sessionId"} |-> parsed[f]]

\* mutant: a record the schema rejects is dropped without a console.warn
ParseEntrySilentSchema(line, lineNumber) ==
    IF ~IsPresent(line.json)
    THEN [entry |-> Absent, warn |-> <<[tag |-> "Malformed JSON", at |-> lineNumber]>>]
    ELSE LET parsed == Val(line.json)
         IN IF ~HistoryEntrySchema(parsed)
            THEN [entry |-> Absent, warn |-> << >>]
            ELSE [entry |-> Some(EnrichedEntry(
                                parsed.display.str, parsed.timestamp.num,
                                parsed.project.str,
                                IF parsed.sessionId.type = "undefined" THEN Absent
                                ELSE Some(parsed.sessionId.str),
                                Absent, lineNumber,
                                Some(TruncateDisplay(parsed.display.str)),
                                IsSlashCommand(parsed.display.str))
                              @@ Catchall(parsed)),
                  warn |-> << >>]

\* parseEntry(line, lineNumber): the entry or null, and what it logs
ParseEntry(line, lineNumber) ==
    IF ~IsPresent(line.json)
    THEN [entry |-> Absent, warn |-> <<[tag |-> "Malformed JSON", at |-> lineNumber]>>]
    ELSE LET parsed == Val(line.json)
         IN IF ~HistoryEntrySchema(parsed)
            THEN [entry |-> Absent,
                  warn |-> <<[tag |-> "Schema validation failed", at |-> lineNumber]>>]
            ELSE [entry |-> Some(EnrichedEntry(
                                parsed.display.str, parsed.timestamp.num,
                                parsed.project.str,
                                IF parsed.sessionId.type = "undefined" THEN Absent
                                ELSE Some(parsed.sessionId.str),
                                Absent, lineNumber,
                                Some(TruncateDisplay(parsed.display.str)),
                                IsSlashCommand(parsed.display.str))
                              @@ Catchall(parsed)),
                  warn |-> << >>]

-----------------------------------------------------------------------------
(* The sources on disk *)

\* ~/.local/share/opencode/opencode.db and ~/.claude/history.jsonl, by their file names
DEFAULT_OPENCODE_DB_PATH == <<"o", "p", "e", "n", "c", "o", "d", "e", ".", "d", "b">>
LEGACY_HISTORY_PATH == <<"h", "i", "s", "t", "o", "r", "y", ".", "j", "s", "o", "n", "l">>
\* two more paths a caller may select
OtherDbPath == <<"x", ".", "d", "b">>
OtherJsonlPath == <<"x", ".", "j", "s", "o", "n", "l">>

Paths == {DEFAULT_OPENCODE_DB_PATH, LEGACY_HISTORY_PATH, OtherDbPath, OtherJsonlPath}

\* a history file has lines, a store has the rows its query returns
JsonlFile(readable, lines) == [readable |-> readable, lines |-> lines, rows |-> << >>]
SqliteFile(rows) == [readable |-> TRUE, lines |-> << >>, rows |-> rows]

NoDisk ==
    [files |-> [p \in Paths |-> Absent], claudecode |-> Absent, codex |-> Absent, gemini |-> Absent,
     openclaw |-> Absent]

ExistsSync(d, path) == path \in DOMAIN d.files /\ IsPresent(d.files[path])

OpenCodeDbExists(d) == ExistsSync(d, DEFAULT_OPENCODE_DB_PATH)

-----------------------------------------------------------------------------
(* What an ingestion call does: it returns entries or throws, after logging *)

Returned(route, es, ws) ==
    [ok |-> TRUE, route |-> route, entries |-> es, warnings |-> ws,
     error |-> [name |-> "", path |-> Absent]]

Threw(route, name, path) ==
    [ok |-> FALSE, route |-> route, entries |-> << >>, warnings |-> << >>,
     error |-> [name |-> name, path |-> path]]

Outcome(call, path, clients, r, merged) ==
    [call |-> call, path |-> path, clients |-> clients, ok |-> r.ok, route |-> r.route,
     entries |-> r.entries, warnings |-> r.warnings, error |-> r.error,
     merged |-> merged]

NoOutcome == Outcome("none", Absent, Absent, Returned("none", << >>, << >>), << >>)

NoRun == [path |-> Absent, reads |-> << >>]

\* no parseOpenCodeHistory call in progress, no handle made
NoDb ==
    [pc |-> "idle", handle |-> "none", readonly |-> FALSE, arg |-> Absent, path |-> Absent,
     i |-> 0, entries |-> << >>, error |-> Absent, caught |-> FALSE, ended |-> << >>]

\* no test case stored, no runAllTests call made
NoTests ==
    [pc |-> "idle", stored |-> << >>, options |-> Absent, testCases |-> << >>,
     concurrency |-> 1, i |-> 0, started |-> {}, pending |-> {}, chunkResults |-> << >>,
     results |-> << >>, passed |-> 0, failed |-> 0, skipped |-> 0, completed |-> 0,
     now |-> 0, saved |-> {}, summary |-> Absent, rejectedBy |-> 0]

-----------------------------------------------------------------------------
(* parseHistoryJsonl (core/parser) *)

\* the loop over the first n lines: lineNumber counts every line, a blank
\* line is passed over, parseEntry gives the entry or null
RECURSIVE JsonlLoop(_, _)
JsonlLoop(lines, n) ==
    IF n = 0 THEN [entries |-> << >>, warnings |-> << >>]
    ELSE LET before == JsonlLoop(lines, n - 1)
             line == lines[n]
         IN IF Trim(line.text) = << >> THEN before
            ELSE LET r == ParseEntry(line, n)
                 IN [entries |-> before.entries \o r.entry,
                     warnings |-> before.warnings \o r.warn]

\* mutant: lineNumber counts the lines that are not blank
ParseHistoryJsonlNonBlank(d, filePath) ==
    IF ~ExistsSync(d, filePath)
    THEN Threw("jsonl", "History file not found", Some(filePath))
    ELSE LET file == Val(d.files[filePath])
             Keep(l) == Trim(l.text) # << >>
         IN IF ~file.readable
            THEN Threw("jsonl", "Permission denied reading history file", Some(filePath))
            ELSE LET r == JsonlLoop(SelectSeq(file.lines, Keep),
                                    Len(SelectSeq(file.lines, Keep)))
                 IN Returned("jsonl", r.entries, r.warnings)

ParseHistoryJsonl(d, filePath) ==
    IF ~ExistsSync(d, filePath)
    THEN Threw("jsonl", "History file not found", Some(filePath))
    ELSE LET file == Val(d.files[filePath])
         IN IF ~file.readable
            THEN Threw("jsonl", "Permission denied reading history file", Some(filePath))
            ELSE LET r == JsonlLoop(file.lines, Len(file.lines))
                 IN Returned("jsonl", r.entries, r.warnings)

-----------------------------------------------------------------------------
(* parseOpenCodeHistory (core/opencode-parser) *)

\* a row of the query; part_data is what JSON.parse makes of the column
\* (Absent: it throws), an object with an optional text
OpenCodeRow(partData, t, worktree, sid) ==
    [part_data |-> partData, time_created |-> t, project_worktree |-> worktree,
     session_id |-> sid]

OpenCodeTruncateDisplay(display, maxLength) ==
    IF Len(display) <= maxLength THEN display
    ELSE Substring0(display, maxLength - 3) \o <<".", ".", ".">>

OpenCodeEntries(rows) ==
    LET HasText(i) == /\ IsPresent(rows[i].part_data)
                      /\ TruthyString(Val(rows[i].part_data).text)
        kept == SelectSeq([i \in 1..Len(rows) |-> i], HasText)
    IN [k \in 1..Len(kept) |->
          LET row == rows[kept[k]]
              display == Val(Val(row.part_data).text)
          IN EnrichedEntry(display, row.time_created, row.project_worktree,
                           Some(row.session_id), Absent, kept[k],
                           Some(OpenCodeTruncateDisplay(display, 500)),
                           StartsWith(TrimStart(display), <<"/">>))]

ParseOpenCodeHistory(d, dbPath) ==
    LET path == IF TruthyString(dbPath) THEN Val(dbPath) ELSE DEFAULT_OPENCODE_DB_PATH
    IN IF ~ExistsSync(d, path)
       THEN Returned("relational", << >>, <<[tag |-> "Database not found", at |-> 0]>>)
       ELSE Returned("relational", OpenCodeEntries(Val(d.files[path]).rows), << >>)

-----------------------------------------------------------------------------
(* parseHistory (core/parser).  filePath is Absent when the caller passes no
   argument: filePath.endsWith then throws a TypeError. *)

ParseHistory(d, filePath) ==
    IF ~IsPresent(filePath) THEN Threw("none", "TypeError", Absent)
    ELSE LET p == Val(filePath)
         IN IF \/ EndsWith(p, <<".", "d", "b">>)
               \/ EndsWith(p, <<"o", "p", "e", "n", "c", "o", "d", "e", ".", "d", "b">>)
            THEN ParseOpenCodeHistory(d, filePath)
            ELSE IF (p = DEFAULT_OPENCODE_DB_PATH \/ ~ExistsSync(d, p)) /\ OpenCodeDbExists(d)
            THEN ParseOpenCodeHistory(d, Absent)
            ELSE ParseHistoryJsonl(d, p)

-----------------------------------------------------------------------------
(* The per-client adapters (parsers/claudecode, codex, gemini, openclaw) *)

\* a timestamp field as new Date() reads it: an instant, or no date at all
DateText(valid, t) == [valid |-> valid, time |-> t]

\* a parsed record of a client log, by the fields the adapters read:
\* type (role for openclaw), timestamp, content (payload.content for codex),
\* project (payload.project for codex)
ClientRecord(type, t, content, project) ==
    [type |-> type, timestamp |-> t, content |-> content, project |-> project]

\* a file of a client directory: the stem of its name, the session id and the
\* project the file (gemini) or its path (claudecode) holds, and its lines
\* (for gemini, the messages of the session)
ClientFile(stem, sid, project, lines) ==
    [stem |-> stem, sessionId |-> sid, project |-> project, lines |-> lines]

Unknown == <<"u", "n", "k", "n", "o", "w", "n">>

NonBlank(lines) ==
    LET Keep(l) == Trim(l.text) # << >>
    IN SelectSeq(lines, Keep)

\* entry.timestamp ? new Date(entry.timestamp).getTime() : Date.now()
ClientTimestamp(entry, now) ==
    IF IsPresent(entry.timestamp)
    THEN (IF Val(entry.timestamp).valid THEN Val(entry.timestamp).time ELSE NaN)
    ELSE now

ParseClaudeFile(file, startLine, now) ==
    LET Accept(l) == IsPresent(l.json) /\ Val(l.json).type \in {"user", "assistant"}
        kept == SelectSeq(NonBlank(file.lines), Accept)
        project == IF TruthyString(file.project) THEN Val(file.project) ELSE Unknown
    IN [k \in 1..Len(kept) |->
          LET entry == Val(kept[k].json)
              display == Substring0(kept[k].text, 200)
          IN EnrichedEntry(display, ClientTimestamp(entry, now), project,
                           Some(file.stem), Some("claudecode"), startLine + k - 1,
                           Absent, ClaudeIsSlashCommand(display))]

ParseCodexFile(file, startLine, now) ==
    LET Accept(l) == IsPresent(l.json) /\ Val(l.json).type = "user_prompt"
        kept == SelectSeq(NonBlank(file.lines), Accept)
    IN [k \in 1..Len(kept) |->
          LET entry == Val(kept[k].json)
              display == IF TruthyString(entry.content) THEN Val(entry.content)
                         ELSE Substring0(kept[k].text, 200)
              project == IF TruthyString(entry.project) THEN Val(entry.project)
                         ELSE Unknown
          IN EnrichedEntry(display, ClientTimestamp(entry, now), project,
                           Some(file.stem), Some("codex"), startLine + k - 1,
                           Absent, ClientIsSlashCommand(display))]

ParseGeminiFile(file, startLine, now) ==
    LET Accept(l) == Val(l.json).type = "user"
        kept == SelectSeq(file.lines, Accept)
        sessionId == IF TruthyString(file.sessionId) THEN Val(file.sessionId) ELSE Unknown
        project == IF TruthyString(file.project) THEN Val(file.project) ELSE Unknown
    IN [k \in 1..Len(kept) |->
          LET msg == Val(kept[k].json)
              display == IF TruthyString(msg.content) THEN Val(msg.content) ELSE << >>
          IN EnrichedEntry(display, ClientTimestamp(msg, now), project,
                           Some(sessionId), Some("gemini"), startLine + k - 1,
                           Absent, ClientIsSlashCommand(display))]

ParseOpenClawFile(file, startLine, now) ==
    LET Accept(l) == IsPresent(l.json) /\ Val(l.json).type = "user"
        kept == SelectSeq(NonBlank(file.lines), Accept)
    IN [k \in 1..Len(kept) |->
          LET entry == Val(kept[k].json)
              display == IF TruthyString(entry.content) THEN Val(entry.content) ELSE << >>
              project == IF TruthyString(entry.project) THEN Val(entry.project)
                         ELSE Unknown
          IN EnrichedEntry(display, ClientTimestamp(entry, now), project,
                           Some(file.stem), Some("openclaw"), startLine + k - 1,
                           Absent, ClientIsSlashCommand(display))]

\* the loop over the files of a directory: lineNumber += entries.length
RECURSIVE ParseClientFiles(_, _, _, _)
ParseClientFiles(client, files, lineNumber, now) ==
    IF files = << >> THEN << >>
    ELSE LET file == Head(files)
             es == CASE client = "claudecode" -> ParseClaudeFile(file, lineNumber, now)
                     [] client = "codex" -> ParseCodexFile(file, lineNumber, now)
                     [] client = "gemini" -> ParseGeminiFile(file, lineNumber, now)
                     [] client = "openclaw" -> ParseOpenClawFile(file, lineNumber, now)
         IN es \o ParseClientFiles(client, Tail(files), lineNumber + Len(es), now)

\* a directory that is not there makes readdir throw: the adapter returns []
ParseClientHistory(client, d, now) ==
    IF ~IsPresent(d[client]) THEN << >>
    ELSE ParseClientFiles(client, Val(d[client]), 1, now)


-----------------------------------------------------------------------------
(* parseMultiClientHistory (core/parser) *)

\* !clients || clients.includes(name)
Selected(clients, name) == ~IsPresent(clients) \/ name \in Val(clients)

\* the OpenCode leg calls parseHistory without an argument, inside try/catch
OpenCodeLeg(d) ==
    LET r == ParseHistory(d, Absent)
    IN IF r.ok
       THEN [k \in 1..Len(r.entries) |-> [r.entries[k] EXCEPT !.client = Some("opencode")]]
       ELSE << >>

\* allEntries before the sort
MergedEntries(d, clients, now) ==
    (IF Selected(clients, "opencode") THEN OpenCodeLeg(d) ELSE << >>)
    \o (IF Selected(clients, "claudecode") THEN ParseClientHistory("claudecode", d, now) ELSE << >>)
    \o (IF Selected(clients, "codex") THEN ParseClientHistory("codex", d, now) ELSE << >>)
    \o (IF Selected(clients, "gemini") THEN ParseClientHistory("gemini", d, now) ELSE << >>)
    \o (IF Selected(clients, "openclaw") THEN ParseClientHistory("openclaw", d, now) ELSE << >>)

\* the one order a stable sort gives with (a, b) => b.timestamp - a.timestamp
StableByTimestampDesc(s) ==
    LET Before(i, j) == \/ NumLt(s[j].timestamp, s[i].timestamp)
                        \/ (s[i].timestamp = s[j].timestamp /\ i < j)
        Rank(i) == Cardinality({j \in 1..Len(s) : Before(j, i)}) + 1
    IN [k \in 1..Len(s) |-> s[CHOOSE i \in 1..Len(s) : Rank(i) = k]]

\* Array.prototype.sort with that comparator: stable when every difference
\* is a number; with a NaN among the timestamps the comparator returns NaN,
\* it is not a consistent comparator and the order is the implementation's
SortByTimestampDesc(s) ==
    IF \A i \in 1..Len(s) : ~s[i].timestamp.nan
    THEN {StableByTimestampDesc(s)}
    ELSE {[k \in 1..Len(s) |-> s[p[k]]] :
            p \in {q \in [1..Len(s) -> 1..Len(s)] :
                      \A i, j \in 1..Len(s) : q[i] = q[j] => i = j}}

-----------------------------------------------------------------------------
(* The engine after construction, over a set of entries *)

NoOptions ==
    [query |-> Absent, project |-> Absent, from |-> Absent, to |-> Absent,
     limit |-> Absent, unique |-> Absent, includeSlashCommands |-> Absent]

NoStage ==
    [matched |-> << >>, project |-> << >>, from |-> << >>, to |-> << >>,
     slash |-> << >>, unique |-> << >>]

Constructed(universe, scores) ==
    /\ entries \in SeqsUpTo(universe, MaxEntries)
    /\ fuse \in [DOMAIN entries -> scores]
    /\ entries0 = entries
    /\ calls = 0
    /\ opts = NoOptions
    /\ stage = NoStage
    /\ results = << >>
    /\ memo = Absent
    /\ disk = NoDisk
    /\ out = NoOutcome
    /\ run = NoRun
    /\ db = NoDb
    /\ tests = NoTests

BoolOption == {Absent, Some(FALSE), Some(TRUE)}
LimitOption == {Absent} \cup {Some(n) : n \in 0..MaxLimit}

\* the one non-empty query of the model, and the project filter
QueryText == <<"q">>
ProjectText == <<"f", "O">>

ProjectFo == <<"/", "F", "o">>
ProjectB == <<"/", "b">>

-----------------------------------------------------------------------------
(* Filtering without a query: displays, flags and projects vary *)

Displays == {<<"a">>, <<" ", "A">>, <<"/", "a">>, <<" ", "/", "a">>}

FilterEntries ==
    AdapterEntries(Displays, {ProjectFo}, {0})
        \cup AdapterEntries({<<"a">>}, {ProjectB}, {0})

FilterOptions ==
    {[query |-> q, project |-> p, from |-> Absent, to |-> Absent,
      limit |-> l, unique |-> u, includeSlashCommands |-> s] :
        q \in {Absent, Some(<< >>)},
        p \in {Absent, Some(<< >>), Some(ProjectText)},
        l \in LimitOption, u \in BoolOption, s \in BoolOption}

FilterInit == Constructed(FilterEntries, {NoMatch})

FilterNext == \E o \in FilterOptions : SearchCommand(o)

FilterSpec == FilterInit /\ [][FilterNext]_vars

-----------------------------------------------------------------------------
(* The date range: timestamps vary.  Instants are milliseconds counted from a
   base instant, the filter only compares and adds. *)

Day == EndOfDayOffset + 1

Timestamps == {0, 1, Day - 1, Day}

DateEntries == AdapterEntries({<<"a">>}, {ProjectFo}, Timestamps)

DateOptions ==
    {[query |-> Absent, project |-> Absent, from |-> f, to |-> t,
      limit |-> l, unique |-> u, includeSlashCommands |-> Absent] :
        f \in {Absent, Some(0), Some(1), Some(Day)},
        t \in {Absent, Some(0), Some(1)},
        l \in LimitOption, u \in {Absent, Some(TRUE)}}

DateInit == Constructed(DateEntries, {NoMatch})

DateNext == \E o \in DateOptions : SearchCommand(o)

DateSpec == DateInit /\ [][DateNext]_vars

-----------------------------------------------------------------------------
(* Searching with a query: the scores of the index vary *)

QueryEntries ==
    {Entry(<<"a">>, ProjectFo, 0, FALSE),
     Entry(<<" ", "A">>, ProjectB, Day, FALSE),
     Entry(<<" ", "/", "a">>, ProjectFo, 0, TRUE)}

QueryOptions ==
    {[query |-> Some(QueryText), project |-> p, from |-> Absent, to |-> t,
      limit |-> l, unique |-> u, includeSlashCommands |-> s] :
        p \in {Absent, Some(ProjectText)},
        t \in {Absent, Some(0)},
        l \in {Some(MaxLimit)},
        u \in {Absent, Some(TRUE)}, s \in {Absent, Some(TRUE)}}

QueryInit == Constructed(QueryEntries, {NoMatch} \cup Scores)

QueryNext == \E o \in QueryOptions : SearchCommand(o)

QuerySpec == QueryInit /\ [][QueryNext]_vars

-----------------------------------------------------------------------------
(* Repeated search() calls on one engine *)

RepeatEntries ==
    {Entry(<<"a">>, ProjectFo, 0, FALSE),
     Entry(<<" ", "A">>, ProjectFo, Day, FALSE)}

RepeatOptions ==
    {[query |-> q, project |-> Absent, from |-> Absent, to |-> Absent,
      limit |-> Absent, unique |-> u, includeSlashCommands |-> Absent] :
        q \in {Absent, Some(QueryText)}, u \in {Absent, Some(TRUE)}}

RepeatInit == Constructed(RepeatEntries, {NoMatch} \cup Scores)

RepeatNext == calls < MaxCalls /\ \E o \in RepeatOptions : Search(o)

RepeatSpec == RepeatInit /\ [][RepeatNext]_vars

-----------------------------------------------------------------------------
(* Ingestion calls.  The engine is not constructed in these runs. *)

engineVars == <<entries, fuse, calls, opts, stage, results, entries0, memo>>

NoEngine ==
    /\ entries = << >> /\ fuse = << >> /\ entries0 = << >>
    /\ calls = 0 /\ opts = NoOptions /\ stage = NoStage
    /\ results = << >> /\ memo = Absent

ParseHistoryJsonlCall(filePath) ==
    /\ out.call = "none"
    /\ out' = Outcome("parseHistoryJsonl", Some(filePath), Absent,
                      ParseHistoryJsonl(disk, filePath), << >>)
    /\ UNCHANGED <<engineVars, disk, run, db, tests>>

ParseOpenCodeHistoryCall(dbPath) ==
    /\ out.call = "none"
    /\ out' = Outcome("parseOpenCodeHistory", dbPath, Absent,
                      ParseOpenCodeHistory(disk, dbPath), << >>)
    /\ UNCHANGED <<engineVars, disk, run, db, tests>>

ParseHistoryCall(filePath) ==
    /\ out.call = "none"
    /\ out' = Outcome("parseHistory", Some(filePath), Absent,
                      ParseHistory(disk, Some(filePath)), << >>)
    /\ UNCHANGED <<engineVars, disk, run, db, tests>>

ParseClaudeCodeHistoryCall(now) ==
    /\ out.call = "none"
    /\ out' = Outcome("parseClaudeCodeHistory", Absent, Absent,
                      Returned("claudecode",
                               ParseClientHistory("claudecode", disk, now), << >>),
                      << >>)
    /\ UNCHANGED <<engineVars, disk, run, db, tests>>

ParseCodexHistoryCall(now) ==
    /\ out.call = "none"
    /\ out' = Outcome("parseCodexHistory", Absent, Absent,
                      Returned("codex", ParseClientHistory("codex", disk, now), << >>), << >>)
    /\ UNCHANGED <<engineVars, disk, run, db, tests>>

ParseGeminiHistoryCall(now) ==
    /\ out.call = "none"
    /\ out' = Outcome("parseGeminiHistory", Absent, Absent,
                      Returned("gemini", ParseClientHistory("gemini", disk, now), << >>), << >>)
    /\ UNCHANGED <<engineVars, disk, run, db, tests>>

ParseOpenClawHistoryCall(now) ==
    /\ out.call = "none"
    /\ out' = Outcome("parseOpenClawHistory", Absent, Absent,
                      Returned("openclaw", ParseClientHistory("openclaw", disk, now), << >>), << >>)
    /\ UNCHANGED <<engineVars, disk, run, db, tests>>

\* parseMultiClientHistory({clients}): the legs, then the sort
ParseMultiClientHistoryCall(clients, now) ==
    /\ out.call = "none"
    /\ LET merged == MergedEntries(disk, clients, now)
       IN \E sorted \in SortByTimestampDesc(merged) :
            out' = Outcome("parseMultiClientHistory", Absent, clients,
                           Returned("multi", sorted, << >>), merged)
    /\ UNCHANGED <<engineVars, disk, run, db, tests>>

-----------------------------------------------------------------------------
(* Values of the ingestion runs *)

\* instants after MIN_TIMESTAMP, a millisecond apart
T(n) == Num(1700000000, n)

\* Date.now() during a call
Clock == {T(2), T(3)}

\* the text of a line that holds an object with this content
ObjectText(content) == <<"{">> \o content \o <<"}">>

SessionUuid ==
    <<"0", "1", "2", "3", "4", "5", "6", "7", "-", "8", "9", "a", "b", "-",
      "4", "c", "d", "e", "-", "A", "F", "0", "1", "-",
      "2", "3", "4", "5", "6", "7", "8", "9", "a", "B", "c", "D">>

\* a session id as the store makes them
SessionSes == <<"s", "e", "s", "_", "1">>

Stem == <<"s", "1">>

-----------------------------------------------------------------------------
(* One prompt text in every source, and one call of one adapter *)

Pad(prefix, n) == prefix \o [i \in 1..(n - Len(prefix)) |-> "x"]

AdapterDisplays ==
    {<< >>} \cup
    {Pad(p, n) : p \in {<<"a">>, <<"/">>, <<" ", "/">>, <<"\t", "a">>},
                 n \in {2, MAX_DISPLAY_LENGTH - 3, MAX_DISPLAY_LENGTH,
                        MAX_DISPLAY_LENGTH + 1, MAX_DISPLAY_LENGTH + 3}}

\* the history file, the store and the four client directories hold the prompt d
AdapterDisk(d) ==
    [files |->
        [p \in Paths |->
            CASE p = LEGACY_HISTORY_PATH ->
                   Some(JsonlFile(TRUE,
                        <<Line(ObjectText(d),
                               Some(JsonRecord(JString(d), JEmptyObject, JNumber(T(0)),
                                               JString(ProjectFo), JUndefined)))>>))
              [] p = DEFAULT_OPENCODE_DB_PATH ->
                   Some(SqliteFile(
                        <<OpenCodeRow(Some([text |-> Some(d)]), T(0), ProjectFo, SessionSes)>>))
              [] OTHER -> Absent],
     claudecode |->
        Some(<<ClientFile(Stem, Absent, Some(ProjectFo),
                 <<Line(ObjectText(d), Some(ClientRecord("user", Absent, Some(d), Absent)))>>)>>),
     codex |->
        Some(<<ClientFile(Stem, Absent, Absent,
                 <<Line(ObjectText(d),
                        Some(ClientRecord("user_prompt", Absent, Some(d), Absent)))>>)>>),
     gemini |->
        Some(<<ClientFile(Stem, Some(SessionUuid), Absent,
                 <<Line(ObjectText(d), Some(ClientRecord("user", Absent, Some(d), Absent)))>>)>>),
     openclaw |->
        Some(<<ClientFile(Stem, Absent, Absent,
                 <<Line(ObjectText(d), Some(ClientRecord("user", Absent, Some(d), Absent)))>>)>>)]

AdapterInit ==
    /\ NoEngine
    /\ \E d \in AdapterDisplays : disk = AdapterDisk(d)
    /\ out = NoOutcome
    /\ run = NoRun
    /\ db = NoDb
    /\ tests = NoTests

AdapterNext ==
    \/ ParseHistoryJsonlCall(LEGACY_HISTORY_PATH)
    \/ ParseOpenCodeHistoryCall(Absent)
    \/ \E now \in Clock : ParseClaudeCodeHistoryCall(now)
    \/ \E now \in Clock : ParseCodexHistoryCall(now)
    \/ \E now \in Clock : ParseGeminiHistoryCall(now)
    \/ \E now \in Clock : ParseOpenClawHistoryCall(now)

AdapterSpec == AdapterInit /\ [][AdapterNext]_vars

-----------------------------------------------------------------------------
(* The history file: lines that parse, lines that do not, records the schema
   rejects *)

RecordLine(d, t, p, s) ==
    Line(ObjectText(d), Some(JsonRecord(JString(d), JEmptyObject, JNumber(t), JString(p), s)))

JsonlLines ==
    {Line(<<" ">>, Absent),
     Line(<<"{">>, Absent),
     Line(<<"4", "2">>,
          Some([JsonRecord(JUndefined, JUndefined, JUndefined, JUndefined, JUndefined)
                    EXCEPT !.type = "number"])),
     RecordLine(<<"a">>, MIN_TIMESTAMP, ProjectFo, JUndefined),
     RecordLine(<<" ", "/", "b">>, T(0), ProjectB, JString(SessionUuid)),
     RecordLine(<<"a">>, T(0), << >>, JUndefined),
     RecordLine(<<"a">>, Num(999999999, 999), ProjectFo, JUndefined),
     RecordLine(<<"a">>, T(0), ProjectFo, JString(SessionSes)),
     Line(ObjectText(<<"a">>),
          Some(JsonRecord(JUndefined, JEmptyObject, JNumber(T(0)), JString(ProjectFo),
                          JUndefined)))}

JsonlInit ==
    /\ NoEngine
    /\ \E lines \in SeqsUpTo(JsonlLines, MaxLines) :
            disk = [NoDisk EXCEPT !.files[LEGACY_HISTORY_PATH] =
                                      Some(JsonlFile(TRUE, lines))]
    /\ out = NoOutcome
    /\ run = NoRun
    /\ db = NoDb
    /\ tests = NoTests

JsonlNext == ParseHistoryJsonlCall(LEGACY_HISTORY_PATH)

JsonlSpec == JsonlInit /\ [][JsonlNext]_vars

-----------------------------------------------------------------------------
(* parseHistory with a path, over a history file and a store that may or may
   not be there *)

RouteLines ==
    {RecordLine(<<"a">>, MIN_TIMESTAMP, ProjectFo, JString(SessionUuid)),
     RecordLine(<<"a">>, Num(999999999, 999), ProjectFo, JUndefined),
     RecordLine(<<"a">>, T(0), ProjectFo, JString(SessionSes))}

\* rows of the store: a prompt, a prompt whose time is in seconds, a prompt of a
\* session named as the store names them, a part without text, a part that
\* does not parse
RouteRows ==
    {OpenCodeRow(Some([text |-> Some(<<"a">>)]), T(0), ProjectFo, SessionUuid),
     OpenCodeRow(Some([text |-> Some(<<"/", "b">>)]), Num(1700000, 0), ProjectB, SessionUuid),
     OpenCodeRow(Some([text |-> Some(<<"a">>)]), T(1), ProjectFo, SessionSes),
     OpenCodeRow(Some([text |-> Absent]), T(2), ProjectFo, SessionUuid),
     OpenCodeRow(Absent, T(3), ProjectFo, SessionUuid)}

\* ORDER BY m.time_created DESC
OrderedRows(universe, n) ==
    {rows \in SeqsUpTo(universe, n) :
        \A i, j \in DOMAIN rows :
            i < j => ~NumLt(rows[i].time_created, rows[j].time_created)}

RouteInit ==
    /\ NoEngine
    /\ \E legacy \in {Absent, Some(JsonlFile(FALSE, << >>))}
                        \cup {Some(JsonlFile(TRUE, ls)) : ls \in SeqsUpTo(RouteLines, MaxRecords)},
          store \in {Absent} \cup
                    {Some(SqliteFile(rs)) : rs \in OrderedRows(RouteRows, MaxRecords)},
          otherDb \in {Absent, Some(SqliteFile(<< >>))},
          otherJsonl \in {Absent, Some(JsonlFile(TRUE, << >>))} :
            disk = [NoDisk EXCEPT !.files =
                        [p \in Paths |->
                            CASE p = LEGACY_HISTORY_PATH -> legacy
                              [] p = DEFAULT_OPENCODE_DB_PATH -> store
                              [] p = OtherDbPath -> otherDb
                              [] p = OtherJsonlPath -> otherJsonl]]
    /\ out = NoOutcome
    /\ run = NoRun
    /\ db = NoDb
    /\ tests = NoTests

RouteNext == \E p \in Paths : ParseHistoryCall(p)

RouteSpec == RouteInit /\ [][RouteNext]_vars

-----------------------------------------------------------------------------
(* The MCP server (mcp/server): DEFAULT_HISTORY_PATH is computed when the
   module loads, every tool call ingests again, and other processes make and
   remove the history file and the store meanwhile *)

ServerLegacy == Some(JsonlFile(TRUE, <<RecordLine(<<"a">>, T(0), ProjectFo, JUndefined)>>))

ServerStore ==
    Some(SqliteFile(<<OpenCodeRow(Some([text |-> Some(<<"a">>)]), T(1), ProjectFo, SessionSes)>>))

DefaultHistoryPath(d) ==
    IF OpenCodeDbExists(d) THEN DEFAULT_OPENCODE_DB_PATH ELSE LEGACY_HISTORY_PATH

ServerInit ==
    /\ NoEngine
    /\ \E legacy \in {Absent, ServerLegacy}, store \in {Absent, ServerStore} :
            disk = [NoDisk EXCEPT !.files[LEGACY_HISTORY_PATH] = legacy,
                                  !.files[DEFAULT_OPENCODE_DB_PATH] = store]
    /\ out = NoOutcome
    /\ run = [path |-> Some(DefaultHistoryPath(disk)), reads |-> << >>]
    /\ db = NoDb
    /\ tests = NoTests

\* the CallTool handler, as far as it ingests
CallTool ==
    /\ Len(run.reads) < MaxRequests
    /\ LET r == ParseHistory(disk, run.path)
       IN /\ out' = Outcome("parseHistory", run.path, Absent, r, << >>)
          /\ run' = [run EXCEPT !.reads = Append(@, r.route)]
    /\ UNCHANGED <<engineVars, disk, db, tests>>

StoreCreated ==
    /\ ~OpenCodeDbExists(disk)
    /\ disk' = [disk EXCEPT !.files[DEFAULT_OPENCODE_DB_PATH] = ServerStore]
    /\ UNCHANGED <<engineVars, out, run, db, tests>>

StoreRemoved ==
    /\ OpenCodeDbExists(disk)
    /\ disk' = [disk EXCEPT !.files[DEFAULT_OPENCODE_DB_PATH] = Absent]
    /\ UNCHANGED <<engineVars, out, run, db, tests>>

LegacyCreated ==
    /\ ~ExistsSync(disk, LEGACY_HISTORY_PATH)
    /\ disk' = [disk EXCEPT !.files[LEGACY_HISTORY_PATH] = ServerLegacy]
    /\ UNCHANGED <<engineVars, out, run, db, tests>>

LegacyRemoved ==
    /\ ExistsSync(disk, LEGACY_HISTORY_PATH)
    /\ disk' = [disk EXCEPT !.files[LEGACY_HISTORY_PATH] = Absent]
    /\ UNCHANGED <<engineVars, out, run, db, tests>>

ServerNext ==
    \/ CallTool
    \/ StoreCreated
    \/ StoreRemoved
    \/ LegacyCreated
    \/ LegacyRemoved

ServerSpec == ServerInit /\ [][ServerNext]_vars

-----------------------------------------------------------------------------
(* parseMultiClientHistory over client directories and a store that may or may
   not be there *)

ClientLine(type, t) ==
    Line(ObjectText(<<"a">>), Some(ClientRecord(type, t, Some(<<"a">>), Absent)))

\* prompts of two instants, and one whose timestamp is not a date
CodexLines ==
    {ClientLine("user_prompt", Some(DateText(TRUE, T(1)))),
     ClientLine("user_prompt", Some(DateText(TRUE, T(2)))),
     ClientLine("user_prompt", Some(DateText(FALSE, Num(0, 0))))}

ClientOptions ==
    {Absent, Some({}), Some({"codex"}), Some({"opencode", "claudecode"}),
     Some({"codex", "gemini", "openclaw"})}

AggregateInit ==
    /\ NoEngine
    /\ \E store \in {Absent, ServerStore},
          claudecode \in {Absent,
              Some(<<ClientFile(Stem, Absent, Some(ProjectFo),
                        <<ClientLine("user", Some(DateText(TRUE, T(2))))>>)>>)},
          codex \in {Absent} \cup
              {Some(<<ClientFile(Stem, Absent, Absent, ls)>>) :
                  ls \in SeqsUpTo(CodexLines, MaxRecords)},
          gemini \in {Absent,
              Some(<<ClientFile(Stem, Some(SessionUuid), Absent,
                        <<ClientLine("user", Some(DateText(TRUE, T(1))))>>)>>)},
          openclaw \in {Absent,
              Some(<<ClientFile(Stem, Absent, Absent, <<ClientLine("user", Absent)>>)>>)} :
            disk = [files |-> [p \in Paths |->
                                  IF p = DEFAULT_OPENCODE_DB_PATH THEN store ELSE Absent],
                    claudecode |-> claudecode, codex |-> codex, gemini |-> gemini,
                    openclaw |-> openclaw]
    /\ out = NoOutcome
    /\ run = NoRun
    /\ db = NoDb
    /\ tests = NoTests

AggregateNext ==
    \E clients \in ClientOptions, now \in Clock :
        ParseMultiClientHistoryCall(clients, now)

AggregateSpec == AggregateInit /\ [][AggregateNext]_vars

-----------------------------------------------------------------------------
(* parseOpenCodeHistory step by step (core/opencode-parser): the handle is
   made, the query runs, the rows are read, and finally the handle is closed.
   Another process writes the store meanwhile, so new Database and the query
   may throw. *)

\* existsSync(path), then new Database(path, { readonly: true })
OpenCodeOpen(dbPath) ==
    /\ db.pc = "idle"
    /\ Len(db.ended) < MaxRequests
    /\ LET path == IF TruthyString(dbPath) THEN Val(dbPath) ELSE DEFAULT_OPENCODE_DB_PATH
       IN IF ~ExistsSync(disk, path)
          THEN /\ out' = Outcome("parseOpenCodeHistory", dbPath, Absent,
                                 ParseOpenCodeHistory(disk, dbPath), << >>)
               /\ db' = [db EXCEPT !.ended = Append(@, "missing")]
          ELSE \/ /\ db' = [db EXCEPT !.pc = "query", !.handle = "open", !.readonly = TRUE,
                                      !.arg = dbPath, !.path = Some(path), !.i = 0,
                                      !.entries = << >>, !.error = Absent]
                  /\ UNCHANGED out
               \/ /\ out' = Outcome("parseOpenCodeHistory", dbPath, Absent,
                                    Threw("relational", "SQLiteError", Some(path)), << >>)
                  /\ db' = [db EXCEPT !.ended = Append(@, "not opened")]
    /\ UNCHANGED <<engineVars, disk, run, tests>>

\* db.query(query).all(), inside try
OpenCodeQuery ==
    /\ db.pc = "query"
    /\ \/ db' = [db EXCEPT !.pc = "rows"]
       \/ db' = [db EXCEPT !.pc = "finally", !.error = Some("SQLiteError")]
    /\ UNCHANGED <<engineVars, disk, out, run, tests>>

\* one turn of the loop over the rows, or its end and the return statement
OpenCodeRowStep ==
    /\ db.pc = "rows"
    /\ LET rows == Val(disk.files[Val(db.path)]).rows
       IN IF db.i < Len(rows)
          THEN db' = [db EXCEPT !.i = @ + 1,
                                !.entries = OpenCodeEntries(SubSeq(rows, 1, db.i + 1)),
                                !.caught = @ \/ ~IsPresent(rows[db.i + 1].part_data)]
          ELSE db' = [db EXCEPT !.pc = "finally"]
    /\ UNCHANGED <<engineVars, disk, out, run, tests>>

\* mutant: db.close() as the last statement of try, with no finally
OpenCodeCloseInTry ==
    /\ db.pc = "finally"
    /\ db' = [db EXCEPT !.pc = "idle",
                        !.handle = IF IsPresent(db.error) THEN "open" ELSE "closed",
                        !.ended = Append(@, IF IsPresent(db.error) THEN "threw" ELSE "returned")]
    /\ out' = Outcome("parseOpenCodeHistory", db.arg, Absent,
                      IF IsPresent(db.error)
                      THEN Threw("relational", Val(db.error), db.path)
                      ELSE Returned("relational", db.entries, << >>),
                      << >>)
    /\ UNCHANGED <<engineVars, disk, run, tests>>

\* finally { db.close() }, then the return or the rethrow
OpenCodeFinally ==
    /\ db.pc = "finally"
    /\ db' = [db EXCEPT !.pc = "idle", !.handle = "closed",
                        !.ended = Append(@, IF IsPresent(db.error) THEN "threw" ELSE "returned")]
    /\ out' = Outcome("parseOpenCodeHistory", db.arg, Absent,
                      IF IsPresent(db.error)
                      THEN Threw("relational", Val(db.error), db.path)
                      ELSE Returned("relational", db.entries, << >>),
                      << >>)
    /\ UNCHANGED <<engineVars, disk, run, tests>>

StoreInit ==
    /\ NoEngine
    /\ \E store \in {Absent} \cup
                    {Some(SqliteFile(rs)) : rs \in OrderedRows(RouteRows, MaxRecords)},
          otherDb \in {Absent, Some(SqliteFile(<< >>))} :
            disk = [NoDisk EXCEPT !.files[DEFAULT_OPENCODE_DB_PATH] = store,
                                  !.files[OtherDbPath] = otherDb]
    /\ out = NoOutcome
    /\ run = NoRun
    /\ db = NoDb
    /\ tests = NoTests

StoreNext ==
    \/ \E dbPath \in {Absent, Some(OtherDbPath)} : OpenCodeOpen(dbPath)
    \/ OpenCodeQuery
    \/ OpenCodeRowStep
    \/ OpenCodeFinally

StoreSpec == StoreInit /\ [][StoreNext]_vars

-----------------------------------------------------------------------------
(* The export command (index.ts): the history file is ingested, searched and
   exported.  Records of the file may have fields the schema does not name. *)

\* stripInternalFields: the four fields it names are left out, the rest is kept
StripInternalFields(entry) ==
    [f \in DOMAIN entry \ {"_lineNumber", "_truncatedDisplay", "_isSlashCommand",
                            "_isDuplicate"} |-> entry[f]]

\* display.replace(/"/g, '""').replace(/\n/g, '\\n')
RECURSIVE CsvEscape(_)
CsvEscape(s) ==
    IF s = << >> THEN << >>
    ELSE (CASE Head(s) = "\"" -> <<"\"", "\"">>
            [] Head(s) = "\n" -> <<"\\", "n">>
            [] OTHER -> <<Head(s)>>) \o CsvEscape(Tail(s))

\* exportResults: the records of the output, one per result: the stripped
\* entry for json, the four columns for csv, the display for txt and the rest
ExportResults(rs, format) ==
    CASE format = "json" -> [k \in 1..Len(rs) |-> StripInternalFields(rs[k].entry)]
      [] format = "csv" ->
            [k \in 1..Len(rs) |->
                [timestamp |-> rs[k].entry.timestamp, project |-> rs[k].entry.project,
                 display |-> <<"\"">> \o CsvEscape(rs[k].entry.display) \o <<"\"">>,
                 sessionId |-> IF TruthyString(rs[k].entry.sessionId)
                               THEN Val(rs[k].entry.sessionId) ELSE << >>]]
      [] OTHER -> [k \in 1..Len(rs) |-> [display |-> rs[k].entry.display]]

ExportCommand(o, format) ==
    /\ out.call = "none"
    /\ LET r == ParseHistory(disk, run.path)
       IN IF r.ok
          THEN /\ ConstructAndSearch(r.entries, o)
               /\ out' = [NoOutcome EXCEPT !.call = "export", !.route = format,
                                           !.entries = ExportResults(results', format)]
          ELSE /\ out' = Outcome("export", run.path, Absent, r, << >>)
               /\ UNCHANGED engineVars
    /\ UNCHANGED <<disk, run, db, tests>>

\* a record with one more field
WithField(line, name, value) == Line(line.text, Some(Val(line.json) @@ (name :> value)))

ExportLines ==
    {RecordLine(<<"a">>, T(0), ProjectFo, JUndefined),
     RecordLine(<<"\"", "\n">>, T(1), ProjectB, JString(SessionUuid)),
     WithField(RecordLine(<<"a">>, T(1), ProjectFo, JUndefined), "model", JString(<<"m">>)),
     WithField(RecordLine(<<"a">>, T(2), ProjectFo, JUndefined), "_note", JString(<<"n">>)),
     WithField(RecordLine(<<"a">>, T(3), ProjectFo, JUndefined), "_lineNumber",
               JNumber(Num(0, 99)))}

ExportOptions ==
    {[query |-> Absent, project |-> p, from |-> Absent, to |-> Absent,
      limit |-> l, unique |-> Absent, includeSlashCommands |-> Absent] :
        p \in {Absent, Some(ProjectText)}, l \in {Some(1), Some(MaxLimit)}}

\* the process after its module is loaded: DEFAULT_HISTORY_PATH is evaluated
ExportInit ==
    /\ NoEngine
    /\ \E ls \in SeqsUpTo(ExportLines, MaxLines) :
            disk = [NoDisk EXCEPT !.files[LEGACY_HISTORY_PATH] = Some(JsonlFile(TRUE, ls))]
    /\ out = NoOutcome
    /\ run = [path |-> Some(DefaultHistoryPath(disk)), reads |-> << >>]
    /\ db = NoDb
    /\ tests = NoTests

ExportNext ==
    \E o \in ExportOptions, format \in {"json", "csv", "txt"} : ExportCommand(o, format)

ExportSpec == ExportInit /\ [][ExportNext]_vars

-----------------------------------------------------------------------------
(* The list and show commands (index.ts) and the list_prompts tool
   (mcp/server.ts), each in a process of its own over the same sources.  The
   outcome of a command holds what its ingestion returned and, as request,
   what the user asked for. *)

\* list: parseHistory, sort, new HistorySearchEngine(sorted), search
ListCommand(options) ==
    /\ out.call = "none"
    /\ LET r == ParseHistory(disk, run.path)
           o == [NoOptions EXCEPT !.project = options.project,
                                  !.limit = Some(IF IsPresent(options.limit)
                                                 THEN Val(options.limit) ELSE 10),
                                  !.includeSlashCommands = options.includeSlashCommands]
       IN IF r.ok
          THEN \E sorted \in SortByTimestampDesc(r.entries) :
                  /\ ConstructAndSearch(sorted, o)
                  /\ out' = Outcome("list", run.path, Absent, r, << >>)
                                @@ [request |-> options]
          ELSE /\ out' = Outcome("list", run.path, Absent, r, << >>) @@ [request |-> options]
               /\ UNCHANGED engineVars
    /\ UNCHANGED <<disk, run, db, tests>>

\* list_prompts: parseHistory, new HistorySearchEngine(entries), search
ListPromptsTool(args) ==
    /\ out.call = "none"
    /\ LET r == ParseHistory(disk, run.path)
           o == [NoOptions EXCEPT !.project = args.project,
                                  !.limit = Some(IF TruthyNumber(args.limit)
                                                 THEN Val(args.limit) ELSE 10)]
       IN IF r.ok
          THEN /\ ConstructAndSearch(r.entries, o)
               /\ out' = Outcome("list_prompts", run.path, Absent, r, << >>)
                             @@ [request |-> args]
          ELSE /\ out' = Outcome("list_prompts", run.path, Absent, r, << >>)
                             @@ [request |-> args]
               /\ UNCHANGED engineVars
    /\ UNCHANGED <<disk, run, db, tests>>

\* show <index>: parseHistory, the index test, sort, sorted[idx]
ShowCommand(index) ==
    /\ out.call = "none"
    /\ LET r == ParseHistory(disk, run.path)
           idx == index - 1
       IN IF ~r.ok
          THEN out' = Outcome("show", run.path, Absent, r, << >>) @@ [request |-> index]
          ELSE IF idx < 0 \/ idx >= Len(r.entries)
          THEN out' = Outcome("show", run.path, Absent,
                              Threw(r.route, "Invalid index", Absent), << >>)
                         @@ [request |-> index]
          ELSE \E sorted \in SortByTimestampDesc(r.entries) :
                  out' = Outcome("show", run.path, Absent,
                                 Returned(r.route, <<sorted[idx + 1]>>, << >>), sorted)
                            @@ [request |-> index]
    /\ UNCHANGED <<engineVars, disk, run, db, tests>>

CommandLines ==
    {RecordLine(<<"a">>, T(0), ProjectFo, JUndefined),
     RecordLine(<<"/", "b">>, T(1), ProjectFo, JUndefined),
     RecordLine(<<"c">>, T(2), ProjectB, JUndefined),
     RecordLine(<<"a">>, T(2), ProjectFo, JUndefined)}

CommandRows ==
    {OpenCodeRow(Some([text |-> Some(<<"a">>)]), T(0), ProjectFo, SessionSes),
     OpenCodeRow(Some([text |-> Some(<<"/", "b">>)]), T(1), ProjectFo, SessionSes),
     OpenCodeRow(Some([text |-> Some(<<"c">>)]), T(2), ProjectB, SessionSes)}

CommandOptions ==
    {[project |-> p, limit |-> l, includeSlashCommands |-> s] :
        p \in {Absent, Some(ProjectText)},
        l \in {Absent} \cup {Some(n) : n \in 0..MaxLimit},
        s \in {Absent, Some(TRUE)}}

\* a process after its module is loaded: DEFAULT_HISTORY_PATH is evaluated
CommandInit ==
    /\ NoEngine
    /\ \E legacy \in {Absent} \cup
                     {Some(JsonlFile(TRUE, ls)) : ls \in SeqsUpTo(CommandLines, MaxLines)},
          store \in {Absent} \cup
                    {Some(SqliteFile(rs)) : rs \in OrderedRows(CommandRows, MaxRecords)} :
            disk = [NoDisk EXCEPT !.files[LEGACY_HISTORY_PATH] = legacy,
                                  !.files[DEFAULT_OPENCODE_DB_PATH] = store]
    /\ out = NoOutcome
    /\ run = [path |-> Some(DefaultHistoryPath(disk)), reads |-> << >>]
    /\ db = NoDb
    /\ tests = NoTests

CommandNext ==
    \/ \E options \in CommandOptions : ListCommand(options)
    \/ \E args \in CommandOptions : ListPromptsTool(args)
    \/ \E index \in 0..(MaxLines + 1) : ShowCommand(index)

CommandSpec == CommandInit /\ [][CommandNext]_vars

-----------------------------------------------------------------------------
(* The MCP server answering a search_prompts or list_prompts request and
   then a get_prompt request, while the tools that write the history add
   records to the source.  The engine variables keep the first request's
   engine and results: the response the client holds. *)

\* search_prompts, without a query
SearchPromptsTool(args) ==
    /\ out.call = "none"
    /\ LET r == ParseHistory(disk, run.path)
           o == [NoOptions EXCEPT !.project = args.project,
                                  !.limit = Some(IF TruthyNumber(args.limit)
                                                 THEN Val(args.limit) ELSE 20),
                                  !.unique = args.unique]
       IN IF r.ok
          THEN /\ ConstructAndSearch(r.entries, o)
               /\ out' = Outcome("search_prompts", run.path, Absent, r, << >>)
                             @@ [request |-> args]
          ELSE /\ out' = Outcome("search_prompts", run.path, Absent, r, << >>)
                             @@ [request |-> args]
               /\ UNCHANGED engineVars
    /\ UNCHANGED <<disk, run, db, tests>>

\* get_prompt: parseHistory again, then entries.find by _lineNumber
GetPromptTool(lineNumber) ==
    /\ out.call \in {"search_prompts", "list_prompts"}
    /\ LET r == ParseHistory(disk, run.path)
           Is(e) == e._lineNumber = lineNumber
           found == SelectSeq(r.entries, Is)
       IN out' = Outcome("get_prompt", run.path, Absent,
                         IF ~r.ok THEN r
                         ELSE IF found = << >>
                         THEN Threw(r.route, "Prompt not found", Absent)
                         ELSE Returned(r.route, <<found[1]>>, << >>),
                         << >>)
                    @@ [request |-> lineNumber]
    /\ UNCHANGED <<engineVars, disk, run, db, tests>>

\* a prompt is written: a line at the end of the history file, or a row of the
\* store, which the query returns first as the latest
RecordAdded ==
    /\ out.call \in {"search_prompts", "list_prompts"}
    /\ \/ /\ ExistsSync(disk, LEGACY_HISTORY_PATH)
          /\ Len(Val(disk.files[LEGACY_HISTORY_PATH]).lines) <= MaxLines
          /\ disk' = [disk EXCEPT !.files[LEGACY_HISTORY_PATH][1].lines =
                          Append(@, RecordLine(<<"d">>, T(3), ProjectFo, JUndefined))]
       \/ /\ OpenCodeDbExists(disk)
          /\ Len(Val(disk.files[DEFAULT_OPENCODE_DB_PATH]).rows) <= MaxRecords
          /\ disk' = [disk EXCEPT !.files[DEFAULT_OPENCODE_DB_PATH][1].rows =
                          <<OpenCodeRow(Some([text |-> Some(<<"d">>)]), T(3), ProjectFo,
                                        SessionSes)>> \o @]
    /\ UNCHANGED <<engineVars, out, run, db, tests>>

LookupArgs ==
    {[project |-> p, limit |-> l, unique |-> u] :
        p \in {Absent, Some(ProjectText)}, l \in {Absent, Some(1)}, u \in {Absent, Some(TRUE)}}

LookupNext ==
    \/ \E args \in LookupArgs : SearchPromptsTool(args)
    \/ \E args \in LookupArgs : ListPromptsTool(args)
    \/ RecordAdded
    \/ \E k \in DOMAIN results : GetPromptTool(results[k].entry._lineNumber)

LookupSpec == CommandInit /\ [][LookupNext]_vars

-----------------------------------------------------------------------------
(* The test runner (core/test-runner): runAllTests step by step.  A stored
   test case carries, besides its columns, the reply the provider gives to
   its prompt in this run: the response text, or Absent when the provider
   call throws. *)

MaxTests == 3
MaxConcurrency == 2

\* new RegExp(pattern, 'i').test(text), for a pattern of literal characters
RegExpTest(pattern, text) == Includes(ToLowerCase(text), ToLowerCase(pattern))

evaluatePatterns(response, expectedPatterns, expectedNotPatterns) ==
    LET Matched(p) == RegExpTest(p, response)
        Unmatched(p) == ~RegExpTest(p, response)
        unmatchedPatterns == IF TruthyObject(expectedPatterns)
                             THEN SelectSeq(Val(expectedPatterns), Unmatched) ELSE << >>
        forbiddenMatches == IF TruthyObject(expectedNotPatterns)
                            THEN SelectSeq(Val(expectedNotPatterns), Matched) ELSE << >>
    IN [matchedPatterns |-> IF TruthyObject(expectedPatterns)
                            THEN SelectSeq(Val(expectedPatterns), Matched) ELSE << >>,
        unmatchedPatterns |-> unmatchedPatterns,
        forbiddenMatches |-> forbiddenMatches,
        passed |-> Len(unmatchedPatterns) = 0 /\ Len(forbiddenMatches) = 0]

\* the message of the error a provider call throws: translateApiError and the
\* providers' own checks give a message that is not empty
ProviderErrorMessage == <<"4", "0", "1">>

\* runSingleTest at time `now` with the prompt_results ids `saved`: the result,
\* the ids after the call, and whether the call throws (its INSERT meets an id
\* that prompt_results, whose id is the primary key, already holds).  An id
\* made by generateId carries a random part and is taken as new.
runSingleTest(testCase, options, now, saved) ==
    LET threw == ~IsPresent(testCase.reply)
        errorMessage == IF threw THEN Some(ProviderErrorMessage) ELSE Absent
        promptResult == IF threw
                        THEN [id |-> <<"err", now>>, response |-> << >>, latencyMs |-> 0]
                        ELSE [id |-> <<"pr", testCase.id>>, response |-> Val(testCase.reply),
                              latencyMs |-> 1]
        evaluation == evaluatePatterns(promptResult.response, testCase.expectedPatterns,
                                       testCase.expectedNotPatterns)
        testResult == [testCaseId |-> testCase.id,
                       testCaseName |-> testCase.name,
                       passed |-> IF TruthyString(errorMessage) THEN FALSE
                                  ELSE evaluation.passed,
                       promptResult |-> promptResult,
                       unmatchedPatterns |-> evaluation.unmatchedPatterns,
                       errorMessage |-> errorMessage]
        save == options.save # Some(FALSE)
    IN [throws |-> save /\ promptResult.id \in saved,
        result |-> testResult,
        saved |-> IF save THEN saved \cup {promptResult.id} ELSE saved]

\* runAllTests up to the loop: getAllTestCases, the two filters, the counters
RunAllTests(options) ==
    /\ tests.pc = "idle"
    /\ LET ByFilter(tc) ==
               \/ RegExpTest(Val(options.filter), tc.name)
               \/ TruthyString(tc.description) /\ RegExpTest(Val(options.filter), Val(tc.description))
           ByTags(tc) ==
               /\ TruthyObject(tc.tags)
               /\ \E k \in DOMAIN Val(options.tags) :
                      \E m \in DOMAIN Val(tc.tags) : Val(tc.tags)[m] = Val(options.tags)[k]
           all == tests.stored
           filtered == IF TruthyString(options.filter) THEN SelectSeq(all, ByFilter) ELSE all
           tagged == IF TruthyObject(options.tags) /\ Len(Val(options.tags)) > 0
                     THEN SelectSeq(filtered, ByTags) ELSE filtered
           concurrency == IF TruthyNumber(options.concurrency) THEN Val(options.concurrency) ELSE 1
       IN tests' = [tests EXCEPT !.options = Some(options), !.testCases = tagged,
                                 !.concurrency = concurrency,
                                 !.pc = IF concurrency = 1 THEN "loop" ELSE "chunks"]
    /\ UNCHANGED <<engineVars, disk, out, run, db>>

\* one iteration of the loop for concurrency 1
SequentialIteration ==
    /\ tests.pc = "loop"
    /\ tests.i < Len(tests.testCases)
    /\ \E dt \in 0..1 :
          LET now == tests.now + dt
              r == runSingleTest(tests.testCases[tests.i + 1], Val(tests.options), now, tests.saved)
              ran == [tests EXCEPT !.now = now, !.started = @ \cup {tests.i + 1}]
          IN IF r.throws
             THEN tests' = [ran EXCEPT !.pc = "rejected", !.rejectedBy = tests.i + 1]
             ELSE LET counted == [ran EXCEPT !.saved = r.saved,
                                             !.results = Append(@, r.result),
                                             !.passed = IF r.result.passed THEN @ + 1 ELSE @,
                                             !.failed = IF r.result.passed THEN @ ELSE @ + 1]
                  IN IF TruthyBoolean(Val(tests.options).stopOnFailure) /\ ~r.result.passed
                     THEN tests' = [counted EXCEPT !.skipped = Len(tests.testCases) - tests.i - 1,
                                                   !.pc = "return"]
                     ELSE tests' = [counted EXCEPT !.i = @ + 1]
    /\ UNCHANGED <<engineVars, disk, out, run, db>>

\* the indexes of testCases.slice(i, i + concurrency)
Chunk(i, concurrency, length) == {k \in 1..length : i < k /\ k <= i + concurrency}

\* chunk.map(runSingleTest): every test case of the chunk is called, and each
\* call runs up to its await of the provider
ChunkStart ==
    /\ tests.pc = "chunks"
    /\ tests.i < Len(tests.testCases)
    /\ LET chunk == Chunk(tests.i, tests.concurrency, Len(tests.testCases))
       IN tests' = [tests EXCEPT !.pc = "all", !.started = @ \cup chunk, !.pending = chunk,
                                 !.chunkResults = [k \in chunk |-> Absent]]
    /\ UNCHANGED <<engineVars, disk, out, run, db>>

\* the provider call of one test case of the chunk settles and its
\* runSingleTest runs to its end; a call that throws rejects Promise.all
TestSettles(k) ==
    /\ tests.pc = "all"
    /\ k \in tests.pending
    /\ \E dt \in 0..1 :
          LET now == tests.now + dt
              r == runSingleTest(tests.testCases[k], Val(tests.options), now, tests.saved)
          IN IF r.throws
             THEN tests' = [tests EXCEPT !.now = now, !.pc = "rejected", !.rejectedBy = k]
             ELSE tests' = [tests EXCEPT !.now = now, !.saved = r.saved,
                                         !.pending = @ \ {k},
                                         !.chunkResults[k] = Some(r.result)]
    /\ UNCHANGED <<engineVars, disk, out, run, db>>

\* the results of the chunk in the order of the chunk
RECURSIVE ChunkResults(_, _, _)
ChunkResults(chunkResults, i, n) ==
    IF n = 0 THEN << >>
    ELSE Append(ChunkResults(chunkResults, i, n - 1), Val(chunkResults[i + n]))

\* Promise.all resolved: the results are pushed and counted, then stopOnFailure
ChunkEnd ==
    /\ tests.pc = "all"
    /\ tests.pending = {}
    /\ LET n == Cardinality(DOMAIN tests.chunkResults)
           rs == ChunkResults(tests.chunkResults, tests.i, n)
           Passed(r) == r.passed
           Failed(r) == ~r.passed
           counted == [tests EXCEPT !.results = @ \o rs,
                                    !.completed = @ + n,
                                    !.passed = @ + Len(SelectSeq(rs, Passed)),
                                    !.failed = @ + Len(SelectSeq(rs, Failed)),
                                    !.chunkResults = << >>]
       IN IF TruthyBoolean(Val(tests.options).stopOnFailure) /\ SelectSeq(rs, Failed) # << >>
          THEN tests' = [counted EXCEPT !.skipped = Len(tests.testCases) - counted.completed,
                                        !.pc = "return"]
          ELSE tests' = [counted EXCEPT !.i = @ + tests.concurrency, !.pc = "chunks"]
    /\ UNCHANGED <<engineVars, disk, out, run, db>>

\* the summary, after the loop ended or broke
ReturnSummary ==
    /\ \/ tests.pc = "return"
       \/ tests.pc \in {"loop", "chunks"} /\ tests.i >= Len(tests.testCases)
    /\ tests' = [tests EXCEPT !.pc = "returned",
                              !.summary = Some([totalTests |-> Len(tests.testCases),
                                                passed |-> tests.passed,
                                                failed |-> tests.failed,
                                                skipped |-> tests.skipped,
                                                results |-> tests.results])]
    /\ UNCHANGED <<engineVars, disk, out, run, db>>

TestCase(id, name, tags, expectedPatterns, reply) ==
    [id |-> id, name |-> name, description |-> Absent, tags |-> tags,
     expectedPatterns |-> expectedPatterns, expectedNotPatterns |-> Absent, reply |-> reply]

StoredCases ==
    {TestCase(1, <<"p", "a">>, Some(<<"t">>), Some(<< <<"o">> >>), Some(<<"O", "K">>)),
     TestCase(2, <<"p", "b">>, Absent, Absent, Some(<<"n", "o">>)),
     TestCase(3, <<"f", "a">>, Some(<<"t">>), Some(<< <<"o">> >>), Some(<<"x">>)),
     TestCase(4, <<"t", "a">>, Some(<<"t">>), Absent, Absent),
     TestCase(5, <<"t", "b">>, Absent, Some(<< <<"o">> >>), Absent)}

RunAllTestsOptions ==
    {[filter |-> f, tags |-> t, concurrency |-> c, stopOnFailure |-> s, save |-> v] :
        f \in {Absent, Some(<<"a">>)}, t \in {Absent, Some(<<"t">>)},
        c \in {Absent} \cup {Some(n) : n \in 1..MaxConcurrency},
        s \in {Absent, Some(TRUE)}, v \in {Absent, Some(FALSE)}}

\* the rows of test_cases, whose id is the primary key and whose name is unique
RunnerInit ==
    /\ NoEngine
    /\ disk = NoDisk
    /\ out = NoOutcome
    /\ run = NoRun
    /\ db = NoDb
    /\ \E stored \in SeqsUpTo(StoredCases, MaxTests) :
          /\ \A a, b \in DOMAIN stored : a # b => stored[a].id # stored[b].id
          /\ tests = [NoTests EXCEPT !.stored = stored]

RunnerNext ==
    \/ \E options \in RunAllTestsOptions : RunAllTests(options)
    \/ SequentialIteration
    \/ ChunkStart
    \/ \E k \in tests.pending : TestSettles(k)
    \/ ChunkEnd
    \/ ReturnSummary

RunnerSpec == RunnerInit /\ [][RunnerNext]_vars

-----------------------------------------------------------------------------
(* The claims *)

InSeq(x, s) == \E k \in DOMAIN s : s[k] = x

\* C1: search({limit: L, ...}) returns at most L results, for every L >= 0.
C1_LimitBoundsLength ==
    (called /\ IsPresent(opts.limit)) => Len(results) <= Val(opts.limit)

\* C2: unless includeSlashCommands is true, no result wraps an entry whose
\* _isSlashCommand flag is true, whichever adapter set the flag.
C2_NoSlashCommandByDefault ==
    (called /\ opts.includeSlashCommands # Some(TRUE)) =>
        \A k \in DOMAIN results : ~results[k].entry._isSlashCommand

\* flagged entries reach the slash stage, one flagged by a per-client adapter and
\* one that only the validator flags, and something is returned
C2_Witness ==
    /\ called
    /\ opts.includeSlashCommands # Some(TRUE)
    /\ results # << >>
    /\ \E i \in DOMAIN entries :
         /\ entries[i]._isSlashCommand
         /\ ClientIsSlashCommand(entries[i].display)
         /\ InSeq(i, stage.to)
    /\ \E i \in DOMAIN entries :
         /\ entries[i]._isSlashCommand
         /\ ~ClientIsSlashCommand(entries[i].display)
         /\ InSeq(i, stage.to)

\* C3: with unique: true no two results share display.trim().toLowerCase(), each
\* result is the first candidate with its key in the order of the preceding
\* stages, and without a limit every key of a candidate is kept.
C3_UniqueKeepsFirst ==
    (called /\ opts.unique = Some(TRUE)) =>
        LET Key(i) == ToLowerCase(Trim(entries[i].display))
            pre == stage.slash
        IN /\ \A i, j \in DOMAIN results :
                i < j => Key(results[i].ref) # Key(results[j].ref)
           /\ \A i \in DOMAIN results : \E j \in DOMAIN pre :
                /\ pre[j] = results[i].ref
                /\ \A k \in 1..(j - 1) : Key(pre[k]) # Key(pre[j])
           /\ opts.limit = Absent =>
                \A j \in DOMAIN pre : \E i \in DOMAIN results :
                    Key(results[i].ref) = Key(pre[j])

C3_Witness ==
    /\ called
    /\ opts.unique = Some(TRUE)
    /\ Len(stage.unique) < Len(stage.slash)
    /\ Len(results) >= 2

\* C4: search({...opts, limit: L}) is the first L elements of search({...opts}).
C4_LimitIsPrefix ==
    (called /\ IsPresent(opts.limit)) =>
        LET L == Val(opts.limit)
            n == IF L < Len(stage.unique) THEN L ELSE Len(stage.unique)
        IN Refs(results) = SubSeq(stage.unique, 1, n)

\* C5: the date stage keeps exactly the candidates with from <= timestamp and
\* timestamp <= to + 86,399,999, and every result is in that range.
C5_DateRangeInclusive ==
    called =>
        LET InRange(i) ==
                /\ IsPresent(opts.from) => Val(opts.from) <= entries[i].timestamp
                /\ IsPresent(opts.to) => entries[i].timestamp <= Val(opts.to) + 86399999
        IN /\ stage.to = SelectSeq(stage.project, InRange)
           /\ \A k \in DOMAIN results : InRange(results[k].ref)

\* to = D: an entry at D + 86,399,999 is returned, one at D + 86,400,000 is not
C5_Witness ==
    /\ called
    /\ IsPresent(opts.to)
    /\ \E k \in DOMAIN results :
         results[k].entry.timestamp = Val(opts.to) + 86399999
    /\ \E i \in DOMAIN entries :
         /\ entries[i].timestamp = Val(opts.to) + 86400000
         /\ ~InSeq(i, Refs(results))

\* C6, as claimed: from > to returns nothing.
C6_ReversedRangeIsEmpty ==
    (called /\ IsPresent(opts.from) /\ IsPresent(opts.to)
        /\ Val(opts.from) > Val(opts.to)) => results = << >>

\* C6, amended: from > to + 86,399,999 returns nothing.
C6_DisjointRangeIsEmpty ==
    (called /\ IsPresent(opts.from) /\ IsPresent(opts.to)
        /\ Val(opts.from) > Val(opts.to) + 86399999) => results = << >>

C6_Witness ==
    /\ called
    /\ IsPresent(opts.from) /\ IsPresent(opts.to)
    /\ Val(opts.from) > Val(opts.to) + 86399999
    /\ stage.project # << >>
    /\ results = << >>

\* C7: with options.project the project stage keeps exactly the candidates whose
\* lower-cased project contains the lower-cased options.project, and every
\* result is one of them; without it the stage drops nothing.
C7_ProjectFilter ==
    called =>
        LET Has(i) == Includes(ToLowerCase(entries[i].project),
                               ToLowerCase(Val(opts.project)))
        IN IF IsPresent(opts.project)
           THEN /\ stage.project = SelectSeq(stage.matched, Has)
                /\ \A k \in DOMAIN results : Has(results[k].ref)
           ELSE stage.project = stage.matched

C7_Witness ==
    /\ called
    /\ opts.project = Some(ProjectText)
    /\ stage.project # << >>
    /\ Len(stage.project) < Len(stage.matched)
    /\ results # << >>

\* C8: with query absent or "" the candidates are all entries in collection
\* order, and the results are a subsequence of the collection, each without
\* score and matches.
C8_NoQueryKeepsCollectionOrder ==
    (called /\ opts.query \in {Absent, Some(<< >>)}) =>
        /\ stage.matched = [i \in 1..Len(entries) |-> i]
        /\ \A k \in DOMAIN results :
             /\ results[k].score = Absent
             /\ results[k].matches = Absent
             /\ results[k].ref \in DOMAIN entries
             /\ results[k].entry = entries[results[k].ref]
        /\ \A k \in 1..(Len(results) - 1) : results[k].ref < results[k + 1].ref

C8_Witness ==
    /\ called
    /\ opts.query = Some(<< >>)
    /\ Len(results) >= 2
    /\ Len(results) < Len(entries)

\* C9: with a query the later stages keep the relative order of the match stage,
\* so adjacent results have ascending scores.
C9_StagesKeepScoreOrder ==
    (called /\ TruthyString(opts.query)) =>
        LET Pos(r) == CHOOSE k \in DOMAIN stage.matched : stage.matched[k] = r
        IN /\ \A k \in DOMAIN results : InSeq(results[k].ref, stage.matched)
           /\ \A i, j \in DOMAIN results :
                i < j => Pos(results[i].ref) < Pos(results[j].ref)
           /\ \A k \in 1..(Len(results) - 1) :
                Val(results[k].score) <= Val(results[k + 1].score)

\* every stage is on, a candidate is dropped, and the score order of the two
\* results is not the collection order
C9_Witness ==
    /\ called
    /\ IsPresent(opts.project) /\ IsPresent(opts.to) /\ IsPresent(opts.limit)
    /\ opts.unique = Some(TRUE)
    /\ Len(results) >= 2
    /\ Len(results) < Len(stage.matched)
    /\ Val(results[1].score) < Val(results[2].score)
    /\ results[1].ref > results[2].ref

C11_TruncatedDisplay ==
    \A k \in DOMAIN out.entries :
        LET e == out.entries[k]
        IN /\ IsPresent(e._truncatedDisplay)
           /\ Len(Val(e._truncatedDisplay)) <= 500
           /\ Val(e._truncatedDisplay) =
                IF Len(e.display) > 500
                THEN SubSeq(e.display, 1, 497) \o <<".", ".", ".">>
                ELSE e.display

\* C12: every entry an adapter returns has _isSlashCommand true exactly when
\* display without its leading whitespace starts with "/".
C12_SlashCommandFlag ==
    \A k \in DOMAIN out.entries :
        out.entries[k]._isSlashCommand
            = StartsWith(TrimStart(out.entries[k].display), <<"/">>)

\* C13: parseHistoryJsonl over a file returns the entries of its valid lines
\* in file order and nothing else, parseEntry gives null for every non-blank
\* line that does not parse or that the schema rejects, and one diagnostic is
\* logged for each such line.
C13_BadLinesAreSkipped ==
    out.call = "parseHistoryJsonl" =>
        LET lines == Val(disk.files[LEGACY_HISTORY_PATH]).lines
            Blank(i) == Trim(lines[i].text) = << >>
            Valid(i) == /\ ~Blank(i)
                        /\ IsPresent(lines[i].json)
                        /\ HistoryEntrySchema(Val(lines[i].json))
            Bad(i) == ~Blank(i) /\ ~Valid(i)
            valid == SelectSeq([i \in 1..Len(lines) |-> i], Valid)
        IN /\ out.ok
           /\ Len(out.entries) = Len(valid)
           /\ \A k \in DOMAIN out.entries :
                LET e == out.entries[k]
                    v == Val(lines[valid[k]].json)
                IN /\ e._lineNumber = valid[k]
                   /\ e.display = v.display.str
                   /\ e.timestamp = v.timestamp.num
                   /\ e.project = v.project.str
           /\ Len(out.warnings) = Cardinality({i \in DOMAIN lines : Bad(i)})
           /\ \A i \in DOMAIN lines :
                Bad(i) => /\ ParseEntry(lines[i], i).entry = Absent
                          /\ \E k \in DOMAIN out.warnings : out.warnings[k].at = i

\* lines that do not parse and records the schema rejects come before the one
\* valid line, which is returned with the number of its line
C13_Witness ==
    /\ out.call = "parseHistoryJsonl"
    /\ Len(Val(disk.files[LEGACY_HISTORY_PATH]).lines) = MaxLines
    /\ Len(out.entries) = 1
    /\ out.entries[1]._lineNumber = MaxLines
    /\ Len(out.warnings) = MaxLines - 1
    /\ \E i, j \in DOMAIN out.warnings :
         /\ out.warnings[i].tag = "Malformed JSON"
         /\ out.warnings[j].tag = "Schema validation failed"

\* C14: every entry that parseHistory returns, from the history file or from
\* the store, has a timestamp of at least 1,000,000,000,000 ms.
C14_TimestampFloor ==
    out.call = "parseHistory" =>
        \A k \in DOMAIN out.entries :
            NumGe(out.entries[k].timestamp, Num(1000000000, 0))

\* C15: every entry the validator accepts has a project that is not the empty
\* string.
C15_ProjectNonEmpty ==
    out.call = "parseHistoryJsonl" =>
        \A k \in DOMAIN out.entries : out.entries[k].project # << >>

\* C16: every entry that parseHistory returns, from the history file or from
\* the store, has no sessionId or one of the form 8-4-4-4-12 in hexadecimal
\* digits of either case.
C16_SessionIdIsUuid ==
    out.call = "parseHistory" =>
        \A k \in DOMAIN out.entries :
            \/ out.entries[k].sessionId = Absent
            \/ UUID_REGEX(Val(out.entries[k].sessionId))

\* C17: parseMultiClientHistory returns the entries of the legs, each once,
\* with no entry before one of a later timestamp, and entries of one timestamp
\* in the order of the concatenation.
C17_SortedStable ==
    out.call = "parseMultiClientHistory" =>
        LET es == out.entries
            Pos(e) == CHOOSE i \in DOMAIN out.merged : out.merged[i] = e
        IN /\ Len(es) = Len(out.merged)
           /\ \A i \in DOMAIN out.merged : InSeq(out.merged[i], es)
           /\ \A i, j \in DOMAIN es :
                i < j => ~NumLt(es[i].timestamp, es[j].timestamp)
           /\ \A i, j \in DOMAIN es :
                (i < j /\ ~es[i].timestamp.nan /\ es[i].timestamp = es[j].timestamp)
                    => Pos(es[i]) < Pos(es[j])

\* C18: parseMultiClientHistory completes whichever sources are missing, and
\* returns the entries of exactly the selected sources that are there.
C18_MissingSourcesContributeNothing ==
    out.call = "parseMultiClientHistory" =>
        LET Key(e) == <<e.client, e._lineNumber>>
            Keys(es) == {Key(es[k]) : k \in DOMAIN es}
            store == disk.files[DEFAULT_OPENCODE_DB_PATH]
            OfStore == IF IsPresent(store)
                       THEN {<<Some("opencode"), e._lineNumber>> :
                                e \in {OpenCodeEntries(Val(store).rows)[k] :
                                          k \in DOMAIN OpenCodeEntries(Val(store).rows)}}
                       ELSE {}
            OfClient(c) == Keys(ParseClientHistory(c, disk, T(0)))
            Of(c) == IF ~Selected(out.clients, c) THEN {}
                     ELSE IF c = "opencode" THEN OfStore ELSE OfClient(c)
        IN /\ out.ok
           /\ Len(out.entries) = Cardinality(Keys(out.entries))
           /\ Keys(out.entries) = UNION {Of(c) : c \in {"opencode", "claudecode", "codex", "gemini",
                                                 "openclaw"}}

\* C19: parseHistory(path) with a path that does not exist or cannot be read
\* throws an error that names the path, and returns no list.
C19_MissingPathThrows ==
    (/\ out.call = "parseHistory"
     /\ \/ ~ExistsSync(disk, Val(out.path))
        \/ ~Val(disk.files[Val(out.path)]).readable)
        => (~out.ok /\ out.error.path = out.path)

\* C20: every ingestion of a server process reads the kind of source that
\* DEFAULT_HISTORY_PATH named when the process started: the store if the path
\* is the store's, else the history file.
C20_SourceChosenOnce ==
    \A k \in DOMAIN run.reads :
        run.reads[k] = IF run.path = Some(DEFAULT_OPENCODE_DB_PATH)
                       THEN "relational" ELSE "jsonl"

\* C29: with unique: true the deduplication works on the candidates that passed
\* the project, date and slash-command filters: a candidate is dropped exactly
\* when an earlier candidate that passed them has its key
\* display.trim().toLowerCase(), so one whose earlier namesakes were all
\* filtered out is kept.
C29_DedupAfterFilters ==
    (called /\ opts.unique = Some(TRUE)) =>
        LET Key(i) == ToLowerCase(Trim(entries[i].display))
            pre == stage.slash
            At(r) == CHOOSE j \in DOMAIN pre : pre[j] = r
            First(r) == \A k \in 1..(At(r) - 1) : Key(pre[k]) # Key(r)
        IN /\ stage.unique = SelectSeq(pre, First)
           /\ \A j \in DOMAIN pre :
                (\A i \in 1..(pre[j] - 1) : Key(i) = Key(pre[j]) => ~InSeq(i, pre))
                    => InSeq(pre[j], stage.unique)

\* an entry is returned although an earlier entry of the collection has its
\* key: the project filter dropped that one
C29_Witness ==
    /\ called
    /\ opts.unique = Some(TRUE)
    /\ \E i, j \in DOMAIN entries :
         /\ i < j
         /\ ToLowerCase(Trim(entries[i].display)) = ToLowerCase(Trim(entries[j].display))
         /\ InSeq(i, stage.matched)
         /\ ~InSeq(i, stage.project)
         /\ InSeq(j, Refs(results))

\* C27: parseMultiClientHistory includes the entries of every selected source:
\* when clients is absent or lists 'opencode' and the store has user prompts,
\* each of them is in the result, tagged 'opencode'; and every entry of the
\* result is of a selected client.
C27_EveryAdapterIncluded ==
    out.call = "parseMultiClientHistory" =>
        LET store == disk.files[DEFAULT_OPENCODE_DB_PATH]
            prompts == IF IsPresent(store) THEN OpenCodeEntries(Val(store).rows) ELSE << >>
        IN /\ Selected(out.clients, "opencode") =>
                \A k \in DOMAIN prompts :
                    \E n \in DOMAIN out.entries :
                        /\ out.entries[n].client = Some("opencode")
                        /\ out.entries[n].display = prompts[k].display
                        /\ out.entries[n].timestamp = prompts[k].timestamp
           /\ \A n \in DOMAIN out.entries :
                /\ IsPresent(out.entries[n].client)
                /\ Selected(out.clients, Val(out.entries[n].client))

\* C25: every entry parseHistoryJsonl returns has as _lineNumber the number of
\* the line of the file that holds its record, counting blank and rejected
\* lines from 1, and the numbers increase along the result.
C25_LineNumberIsPhysicalLine ==
    (out.call = "parseHistoryJsonl" /\ out.ok) =>
        LET lines == Val(disk.files[Val(out.path)]).lines
            es == out.entries
        IN /\ \A k \in DOMAIN es :
                LET n == es[k]._lineNumber
                IN /\ n >= 1 /\ n <= Len(lines)
                   /\ IsPresent(lines[n].json)
                   /\ Val(lines[n].json).type = "object"
                   /\ Val(lines[n].json).display = JString(es[k].display)
                   /\ Val(lines[n].json).timestamp = JNumber(es[k].timestamp)
           /\ \A k \in 1..(Len(es) - 1) : es[k]._lineNumber < es[k + 1]._lineNumber

\* the first entry is of line 3, after a blank line and a rejected line
C25_Witness ==
    /\ out.call = "parseHistoryJsonl" /\ out.ok
    /\ out.entries # << >>
    /\ out.entries[1]._lineNumber = 3
    /\ LET lines == Val(disk.files[Val(out.path)]).lines
       IN \E i, j \in 1..2 :
            /\ Trim(lines[i].text) = << >>
            /\ Trim(lines[j].text) # << >>
    /\ out.warnings # << >>

\* C21: the handle parseOpenCodeHistory opens is read-only, and whenever no call
\* is in progress (before a call, after a return, after an error has
\* propagated) no handle is open.
C21_HandleClosedOnEveryPath ==
    /\ db.handle = "open" => db.readonly
    /\ db.pc = "idle" => db.handle # "open"

\* one call returned after a row that did not parse, and a later call ended by
\* the error of its query, its handle closed
C21_Witness ==
    /\ db.pc = "idle"
    /\ db.handle = "closed"
    /\ InSeq("returned", db.ended)
    /\ db.ended[Len(db.ended)] = "threw"
    /\ ~out.ok
    /\ db.caught

\* the field names of the model that start with '_'
InternalName(f) ==
    f \in {"_lineNumber", "_truncatedDisplay", "_isSlashCommand", "_isDuplicate", "_note"}

\* C22: no record of an export has a field whose name starts with '_', and a
\* record of the json export has every other field of its entry, with its
\* value, whatever fields the entry took over from its source record.
C22_NoInternalFieldExported ==
    out.call = "export" =>
        /\ \A k \in DOMAIN out.entries :
                \A f \in DOMAIN out.entries[k] : ~InternalName(f)
        /\ out.route = "json" =>
                /\ Len(out.entries) = Len(results)
                /\ \A k \in DOMAIN results :
                        /\ DOMAIN out.entries[k] =
                                {f \in DOMAIN results[k].entry : ~InternalName(f)}
                        /\ \A f \in DOMAIN out.entries[k] :
                                out.entries[k][f] = results[k].entry[f]

\* C23: show <index> prints the entry that list, with its default options,
\* prints at row <index>.
C23_ShowIsRowOfList ==
    (out.call = "show" /\ out.ok) =>
        LET r == ParseHistory(disk, run.path)
            sorted == CHOOSE es \in SortByTimestampDesc(r.entries) : TRUE
            listed == SearchOutput(sorted, [i \in DOMAIN sorted |-> NoMatch],
                                   [NoOptions EXCEPT !.limit = Some(10)]).results
        IN out.request \in DOMAIN listed => out.entries[1] = listed[out.request].entry

\* C24: list and list_prompts with limit L return the L most recent of the
\* entries that pass the filters (all of them if they are fewer), the most
\* recent first.
C24_ListReturnsMostRecent ==
    (out.call \in {"list", "list_prompts"} /\ out.ok) =>
        LET L == IF IsPresent(out.request.limit) THEN Val(out.request.limit) ELSE 10
            passing == stage.unique
            Time(i) == entries[i].timestamp
        IN /\ Len(results) = IF L < Len(passing) THEN L ELSE Len(passing)
           /\ \A k \in DOMAIN results : InSeq(results[k].ref, passing)
           /\ \A k \in 1..(Len(results) - 1) :
                ~NumLt(Time(results[k].ref), Time(results[k + 1].ref))
           /\ \A i \in DOMAIN passing : \A k \in DOMAIN results :
                InSeq(passing[i], Refs(results))
                    \/ ~NumLt(Time(results[k].ref), Time(passing[i]))

\* C26: get_prompt with a lineNumber that the response to search_prompts or
\* list_prompts gave returns the prompt of that response: the same display,
\* project and timestamp, also when records were added in between.
C26_LookupReturnsListedPrompt ==
    out.call = "get_prompt" =>
        \A k \in DOMAIN results :
            results[k].entry._lineNumber = out.request =>
                /\ out.ok
                /\ out.entries[1].display = results[k].entry.display
                /\ out.entries[1].project = results[k].entry.project
                /\ out.entries[1].timestamp = results[k].entry.timestamp

\* the test case at position k of the run fails when it is run
FailsWhenRun(k) ==
    ~runSingleTest(tests.testCases[k], Val(tests.options), 0, {}).result.passed

\* C28: with stopOnFailure, no test case after the first failing test case of
\* the run order is executed, and the summary counts all of them as skipped,
\* for concurrency 1 and for concurrency > 1.
C28_StopsAtFirstFailure ==
    (IsPresent(tests.options) /\ TruthyBoolean(Val(tests.options).stopOnFailure)) =>
        \A f \in DOMAIN tests.testCases :
            (FailsWhenRun(f) /\ \A j \in 1..(f - 1) : ~FailsWhenRun(j)) =>
                /\ \A k \in tests.started : k <= f
                /\ tests.pc = "returned" =>
                       Val(tests.summary).skipped = Len(tests.testCases) - f

\* C30: every summary runAllTests returns has passed + failed + skipped =
\* totalTests and results.length = passed + failed; a test whose provider call
\* throws is counted as failed, with errorMessage set, and the run is not
\* aborted by it.
C30_SummaryCountsEveryTest ==
    /\ tests.pc = "returned" =>
          LET summary == Val(tests.summary)
          IN /\ summary.passed + summary.failed + summary.skipped = summary.totalTests
             /\ Len(summary.results) = summary.passed + summary.failed
             /\ \A k \in DOMAIN summary.results :
                    IsPresent(summary.results[k].errorMessage) =>
                        ~summary.results[k].passed
             /\ \A k \in tests.started :
                    ~IsPresent(tests.testCases[k].reply) =>
                        \E m \in DOMAIN summary.results :
                            /\ summary.results[m].testCaseId = tests.testCases[k].id
                            /\ ~summary.results[m].passed
                            /\ TruthyString(summary.results[m].errorMessage)
    /\ tests.pc = "rejected" => IsPresent(tests.testCases[tests.rejectedBy].reply)

====
